---- MODULE Spec2Model ----
(***************************************************************************)
(* Brazil NF: lifecycle of a Nota Fiscal record.                           *)
(*                                                                         *)
(* The store holds Nota Fiscal records, Purchase Invoices, the Supplier    *)
(* and Item catalogues.  Documents arrive through the SEFAZ fetch and the  *)
(* e-mail monitor, issuer events arrive through the SEFAZ fetch, and the   *)
(* NFProcessor pipeline runs on one record at a time on an in-memory copy  *)
(* of the record (nf_doc) that it writes back with nf_doc.save().  One     *)
(* pipeline execution is in flight at a time; events, manual actions and   *)
(* ingestion interleave with its steps.                                    *)
(* Document.save() is a whole-document write of the in-memory copy,        *)
(* followed by on_update; frappe.db.set_value writes the named fields.     *)
(***************************************************************************)
EXTENDS Integers, Sequences, FiniteSets, TLC

\* ------------------------------------------------------------------ bounds
MaxNF == 2
MaxPI == 2
MaxBatch == 2
MaxPoLines == 3
MaxCand == 3
MaxFeed == 3
MaxLote == 2

\* --------------------------------------------------------- program constants
LinkThreshold == 50
KeyLength == 44
CnpjLength == 14
PartialThreshold == 30

None == "None"
NFNames == 1..MaxNF
Keys == {"K1", "K2"}
Lines == {1, 2}
ItemCodes == [l \in Lines |-> IF l = 1 THEN "ITEM-1" ELSE "ITEM-2"]
SupplierName == "SUP-1"
PurchaseOrderName == "PO-1"
PoScores == {0, 30, 60}

StageNames == {"Supplier Processing", "Item Processing", "PO Matching", "Invoice Creation"}
ProcessingStatuses ==
    {"New", "Parsed", "Completed", "Error", "Cancelled"} \cup StageNames

VARIABLES
    settings,    \* Nota Fiscal Settings (single document)
    db,          \* tabNota Fiscal: name -> persisted record
    invoices,    \* tabPurchase Invoice: sequence, the index is the name
    suppliers,   \* number of Supplier documents carrying the issuer's CNPJ
    items,       \* Item catalogue: item code -> number of Item documents
    run,         \* the pipeline execution: record name, position, nf_doc, result
    batch,       \* batch_process: documents left, counters and details
    pending,     \* ingestion channel -> the document it has looked up but not yet written
    outbox,      \* the issues the last event handler passed to frappe.sendmail
    calc,        \* the last call of a resolver function: its name, input and result
    dfe,         \* the authority's distribution feed and the NSUs it has handed out
    company,     \* NF Company Settings (one company): the stored last-NSU cursor
    fetch        \* the SEFAZ fetch in progress: its LoteDFe and position in it

vars == <<settings, db, invoices, suppliers, items, run, batch, pending, outbox, calc,
          dfe, company, fetch>>

\* ------------------------------------------------------------- Nota Fiscal
NoRecord ==
    [exists |-> FALSE, chave |-> None, numero |-> FALSE,
     processing_status |-> "New", cancelada |-> FALSE, nsu |-> 0,
     supplier |-> None, purchase_order |-> None, purchase_invoice |-> 0,
     item_creation_status |-> "Pending", processing_error |-> FALSE,
     origin_sefaz |-> FALSE, origin_email |-> FALSE,
     item |-> [l \in Lines |-> None]]

\* frappe.new_doc("Nota Fiscal") filled by an ingestion channel; before_insert
\* sets processing_status "New".
NewRecord(chave, numero, sefaz, email) ==
    [NoRecord EXCEPT !.exists = TRUE, !.chave = chave, !.numero = numero,
                     !.origin_sefaz = sefaz, !.origin_email = email]

IsCancelled(r) == r.cancelada \/ r.processing_status = "Cancelled"

\* frappe.db.exists / get_value("Nota Fiscal", {"chave_de_acesso": chave})
WithKey(chave) == {n \in NFNames : db[n].exists /\ db[n].chave = chave}

FreeNames == {n \in NFNames : ~db[n].exists}
NextName == CHOOSE n \in FreeNames : \A m \in FreeNames : n <= m

\* --------------------------------------------------------- Purchase Invoice
\* docstatus 0 draft, 1 submitted, 2 cancelled; deleted documents keep their slot.
PINames == 1..Len(invoices)
PIExists(p) == p \in PINames /\ ~invoices[p].deleted

\* NotaFiscal.on_update: copy the access key to the linked Purchase Invoice.
OnUpdate(inv, doc) ==
    IF doc.purchase_invoice \in 1..Len(inv) /\ ~inv[doc.purchase_invoice].deleted
    THEN [inv EXCEPT ![doc.purchase_invoice].chave = doc.chave]
    ELSE inv

NewInvoice(n, doc, docstatus) ==
    [deleted |-> FALSE, docstatus |-> docstatus, nota_fiscal |-> n,
     chave |-> doc.chave, origin |-> n, bill_no |-> doc.numero]

\* InvoiceCreator.find_existing_invoice for record n: the invoices the three
\* lookups can return (the first lookup that matches decides; the store's row
\* order among several matches of one lookup is not fixed).  origin stands for
\* the supplier, value and date of the record the invoice was written from.
Live(inv, p) == ~inv[p].deleted /\ inv[p].docstatus < 2
ByChave(inv, doc) ==
    {p \in 1..Len(inv) : doc.chave # None /\ Live(inv, p) /\ inv[p].chave = doc.chave}
ByBillNo(inv, n, doc) ==
    {p \in 1..Len(inv) : doc.numero /\ doc.supplier # None /\ Live(inv, p)
                         /\ inv[p].bill_no /\ inv[p].origin = n}
ByFuzzy(inv, n, doc) ==
    {p \in 1..Len(inv) : doc.supplier # None /\ Live(inv, p)
                         /\ inv[p].nota_fiscal = 0 /\ inv[p].origin = n}
FindExistingInvoice(inv, n, doc) ==
    IF ByChave(inv, doc) # {} THEN ByChave(inv, doc)
    ELSE IF ByBillNo(inv, n, doc) # {} THEN ByBillNo(inv, n, doc)
    ELSE ByFuzzy(inv, n, doc)

\* InvoiceCreator.link_existing_invoice
LinkExistingInvoice(inv, n, doc, p) ==
    [inv EXCEPT ![p].nota_fiscal = n, ![p].chave = doc.chave]

\* ------------------------------------------------------------- resolvers
\* SupplierManager.process_nf_supplier: the supplier reference and the new
\* number of Supplier documents; create_ok is whether Supplier.insert succeeds.
ProcessNfSupplier(cnt, create_ok) ==
    IF cnt > 0 THEN [supplier |-> SupplierName, suppliers |-> cnt]
    ELSE IF settings.auto_create_supplier
         THEN IF create_ok
              THEN [supplier |-> SupplierName, suppliers |-> cnt + 1]
              ELSE [supplier |-> None, suppliers |-> cnt]
         ELSE [supplier |-> None, suppliers |-> cnt]

\* ItemManager.create_item: an Item is inserted only when its code is new.
CreateItem(cat, code) ==
    IF cat[code] > 0 THEN cat ELSE [cat EXCEPT ![code] = 1]

\* ItemManager.process_single_item on line l: "ok" with the item reference, or
\* "raised" when create_item raises (process_nf_items then marks the line Failed
\* and leaves its item reference as it was).
ProcessSingleItem(doc, cat, l, create_ok) ==
    IF cat[ItemCodes[l]] > 0 /\ doc.supplier # None
    THEN [out |-> "Linked", item |-> ItemCodes[l], cat |-> cat]
    ELSE IF settings.auto_create_item
         THEN IF create_ok
              THEN [out |-> "Created", item |-> ItemCodes[l],
                    cat |-> CreateItem(cat, ItemCodes[l])]
              ELSE [out |-> "Raised", item |-> doc.item[l], cat |-> cat]
         ELSE [out |-> "Failed", item |-> None, cat |-> cat]

\* The aggregate that calls any failure Failed.
AggregateStatusAnyFailed(failed, total) ==
    IF failed = 0 THEN "All Created" ELSE "Failed"

\* ItemManager.process_nf_items: every line in turn, then the aggregate status.
AggregateStatus(failed, total) ==
    IF failed = 0 THEN "All Created"
    ELSE IF failed = total THEN "Failed"
    ELSE "Partial"

ProcessNfItems(doc, cat, create_ok) ==
    LET r1 == ProcessSingleItem(doc, cat, 1, create_ok[1])
        r2 == ProcessSingleItem(doc, r1.cat, 2, create_ok[2])
        failed == Cardinality({l \in Lines :
                      (IF l = 1 THEN r1 ELSE r2).out \in {"Raised", "Failed"}})
    IN  [item |-> [l \in Lines |-> IF l = 1 THEN r1.item ELSE r2.item],
         item_status |-> [l \in Lines |->
                            LET r == IF l = 1 THEN r1 ELSE r2
                            IN  IF r.out = "Raised" THEN "Failed" ELSE r.out],
         status |-> AggregateStatus(failed, Cardinality(Lines)),
         cat |-> r2.cat]

\* POMatcher.auto_link_po: score is the best score among the candidates.
AutoLinkPo(doc, score) ==
    IF doc.supplier = None THEN None
    ELSE IF score >= LinkThreshold THEN PurchaseOrderName
    ELSE IF score >= PartialThreshold THEN PurchaseOrderName
    ELSE None

\* ------------------------------------------------------------------- Init
SettingsSpace ==
    [auto_create_supplier : BOOLEAN,
     auto_create_item : BOOLEAN,
     enable_po_matching : BOOLEAN,
     auto_create_invoice : BOOLEAN,
     auto_submit : BOOLEAN,
     send_cancellation_alerts : BOOLEAN,
     alert_email : BOOLEAN]

\* Settings with the cancellation alerts switched on and a recipient set.
AlertsConfigured(s) == s.send_cancellation_alerts /\ s.alert_email

IdleRun == [nf |-> 0, pc |-> "idle", doc |-> NoRecord, result |-> None]
IdleBatch == [active |-> FALSE, documents |-> <<>>, next |-> 1, current |-> 0,
              processed |-> 0, completed |-> 0, errors |-> 0, skipped |-> 0,
              details |-> <<>>]

Channels == {"sefaz", "email"}
NoPending == [c \in Channels |-> [busy |-> FALSE, chave |-> None, existing |-> 0]]
NoCall == [fn |-> None]

\* No distribution feed, the cursor of a new NF Company Settings document
\* (last_nsu_nfse empty, read as 0), and no fetch in progress.
NoFeed == [feed |-> <<>>, delivered |-> {}]
NewCompany == [last_nsu_nfse |-> 0]
IdleFetch ==
    [pc |-> "idle", manual |-> FALSE, last_nsu |-> 0, loaded |-> NewCompany,
     documents |-> <<>>, next |-> 1, status |-> None]

\* The identities an ingested document can have: an access key and a number,
\* a number only, or neither one.
Identities == {<<"K1", TRUE>>, <<None, TRUE>>, <<None, FALSE>>}

\* The store right after the first document was ingested by e-mail.
Init ==
    /\ settings \in {s \in SettingsSpace : AlertsConfigured(s)}
    /\ \E id \in Identities :
          db = [n \in NFNames |->
                  IF n = 1 THEN NewRecord(id[1], id[2], FALSE, TRUE) ELSE NoRecord]
    /\ invoices = <<>>
    /\ suppliers = 0
    /\ items = [c \in {ItemCodes[l] : l \in Lines} |-> 0]
    /\ run = IdleRun
    /\ batch = IdleBatch
    /\ pending = NoPending
    /\ outbox = {}
    /\ calc = NoCall
    /\ dfe = NoFeed
    /\ company = NewCompany
    /\ fetch = IdleFetch

\* ---------------------------------------------------------------- pipeline
Finished == run.pc \in {"idle", "done", "raised"}
InFlight(n) == run.nf = n /\ ~Finished

\* nf_doc.save(): the whole in-memory document replaces the stored one, then
\* on_update runs.
Save(n, doc, inv) ==
    /\ db' = [db EXCEPT ![n] = doc]
    /\ invoices' = OnUpdate(inv, doc)

\* NFProcessor.process, except block: status Error and the message are saved and
\* the result is returned; the save is not guarded, so when it raises as well
\* (hok false) the exception leaves process().  base is the table as the
\* writes made so far have left it.
Fail(n, doc, inv, hok, base) ==
    LET d == [doc EXCEPT !.processing_status = "Error", !.processing_error = TRUE]
    IN  IF hok
        THEN /\ Save(n, d, inv)
             /\ run' = [run EXCEPT !.pc = "done", !.doc = NoRecord, !.result = "Error"]
        ELSE /\ db' = base
             /\ invoices' = inv
             /\ run' = [run EXCEPT !.pc = "raised", !.doc = NoRecord, !.result = None]

\* A stage opened in memory only: the stage name is not persisted.
EnterInMemory(n, doc, inv, stage, sok, hok, base) ==
    LET d == [doc EXCEPT !.processing_status = stage]
    IN  IF sok
        THEN /\ Save(n, IF stage = "Completed" THEN d ELSE doc, inv)
             /\ run' = IF stage = "Completed"
                       THEN [run EXCEPT !.pc = "done", !.doc = NoRecord,
                                        !.result = "Completed"]
                       ELSE [run EXCEPT !.pc = stage, !.doc = d]
        ELSE Fail(n, d, inv, hok, base)

\* The status write that opens a stage (or Completed), inside the try block.
Enter(n, doc, inv, stage, sok, hok, base) ==
    LET d == [doc EXCEPT !.processing_status = stage]
    IN  IF sok
        THEN /\ Save(n, d, inv)
             /\ run' = IF stage = "Completed"
                       THEN [run EXCEPT !.pc = "done", !.doc = NoRecord,
                                        !.result = "Completed"]
                       ELSE [run EXCEPT !.pc = stage, !.doc = d]
        ELSE Fail(n, d, inv, hok, base)

\* The invoice condition without the item status.
InvoiceConditionAnyItems(doc) ==
    /\ settings.auto_create_invoice
    /\ doc.supplier # None

InvoiceCondition(doc) ==
    /\ settings.auto_create_invoice
    /\ doc.supplier # None
    /\ doc.item_creation_status = "All Created"

\* The PO matching condition tested again after the PO matching stage.
NextStageRematch(doc, after) ==
    IF settings.enable_po_matching /\ doc.supplier # None
    THEN "PO Matching"
    ELSE IF after \in {"Item Processing", "PO Matching"} /\ InvoiceCondition(doc)
    THEN "Invoice Creation"
    ELSE "Completed"

\* The stage that follows `after` in NFProcessor.process.
NextStage(doc, after) ==
    IF after = "Item Processing" /\ settings.enable_po_matching /\ doc.supplier # None
    THEN "PO Matching"
    ELSE IF after \in {"Item Processing", "PO Matching"} /\ InvoiceCondition(doc)
    THEN "Invoice Creation"
    ELSE "Completed"

\* process() without its already-cancelled check.
ProcessStartUnchecked(n) ==
    /\ Finished
    /\ ~batch.active
    /\ db[n].exists
    /\ run' = [nf |-> n, pc |-> "checked", doc |-> db[n], result |-> None]
    /\ UNCHANGED <<settings, dfe, company, fetch, db, invoices, suppliers, items, batch, pending, outbox, calc>>

\* process() is called on a freshly loaded document (api.process_nota_fiscal,
\* NotaFiscal.process_document): the cancelled check raises, or the run starts.
ProcessStart(n) ==
    /\ Finished
    /\ ~batch.active
    /\ db[n].exists
    /\ run' = IF IsCancelled(db[n])
              THEN [nf |-> n, pc |-> "raised", doc |-> NoRecord, result |-> None]
              ELSE [nf |-> n, pc |-> "checked", doc |-> db[n], result |-> None]
    /\ UNCHANGED <<settings, dfe, company, fetch, db, invoices, suppliers, items, batch, pending, outbox, calc>>

OpenSupplier(n) ==
    /\ run.nf = n /\ run.pc = "checked"
    /\ \E sok, hok \in BOOLEAN :
          Enter(n, run.doc, invoices, "Supplier Processing", sok, hok, db)
    /\ UNCHANGED <<settings, dfe, company, fetch, suppliers, items, batch, pending, outbox, calc>>

RunSupplier(n) ==
    /\ run.nf = n /\ run.pc = "Supplier Processing"
    /\ \E raises, create_ok, sok, hok \in BOOLEAN :
          IF raises
          THEN Fail(n, run.doc, invoices, hok, db) /\ UNCHANGED suppliers
          ELSE LET res == ProcessNfSupplier(suppliers, create_ok)
                   d == [run.doc EXCEPT !.supplier = res.supplier]
               IN  /\ suppliers' = res.suppliers
                   /\ Enter(n, d, invoices, "Item Processing", sok, hok, db)
    /\ UNCHANGED <<settings, dfe, company, fetch, items, batch, pending, outbox, calc>>

RunItems(n) ==
    /\ run.nf = n /\ run.pc = "Item Processing"
    /\ \E raises \in BOOLEAN, create_ok \in [Lines -> BOOLEAN], sok, hok \in BOOLEAN :
          IF raises
          THEN Fail(n, run.doc, invoices, hok, db) /\ UNCHANGED items
          ELSE LET res == ProcessNfItems(run.doc, items, create_ok)
                   d == [run.doc EXCEPT !.item = res.item,
                                        !.item_creation_status = res.status]
               IN  /\ items' = res.cat
                   /\ Enter(n, d, invoices, NextStage(d, "Item Processing"), sok, hok, db)
    /\ UNCHANGED <<settings, dfe, company, fetch, suppliers, batch, pending, outbox, calc>>

RunPO(n) ==
    /\ run.nf = n /\ run.pc = "PO Matching"
    /\ \E raises, sok, hok \in BOOLEAN, score \in PoScores :
          IF raises
          THEN Fail(n, run.doc, invoices, hok, db)
          ELSE LET d == [run.doc EXCEPT !.purchase_order = AutoLinkPo(run.doc, score)]
               IN  Enter(n, d, invoices, NextStage(d, "PO Matching"), sok, hok, db)
    /\ UNCHANGED <<settings, dfe, company, fetch, suppliers, items, batch, pending, outbox, calc>>

\* NFProcessor._create_invoice, then the Completed write.  out is what the
\* creation meets: nothing, or an exception from Purchase Invoice insert, from
\* submit, or from the nf_doc.save() inside create_purchase_invoice.
RunInvoice(n) ==
    /\ run.nf = n /\ run.pc = "Invoice Creation"
    /\ \E out \in {"ok", "insert", "submit", "save"}, sok, hok \in BOOLEAN :
          IF FindExistingInvoice(invoices, n, run.doc) # {}
          THEN \E p \in FindExistingInvoice(invoices, n, run.doc) :
                  Enter(n, [run.doc EXCEPT !.purchase_invoice = p],
                        LinkExistingInvoice(invoices, n, run.doc, p),
                        "Completed", sok, hok, db)
          ELSE IF out = "insert"
          THEN Fail(n, run.doc, invoices, hok, db)
          ELSE /\ Len(invoices) < MaxPI
               /\ LET p == Len(invoices) + 1
                      d == [run.doc EXCEPT !.purchase_invoice = p]
                      draft == Append(invoices, NewInvoice(n, run.doc, 0))
                      made == IF settings.auto_submit
                              THEN [draft EXCEPT ![p].docstatus = 1] ELSE draft
                  IN  IF out = "submit" /\ settings.auto_submit
                      THEN Fail(n, d, draft, hok, db)
                      ELSE IF out = "save"
                      THEN Fail(n, d, made, hok, db)
                      ELSE Enter(n, d, OnUpdate(made, d), "Completed", sok, hok,
                                 [db EXCEPT ![n] = d])
    /\ UNCHANGED <<settings, dfe, company, fetch, suppliers, items, batch, pending, outbox, calc>>

Pipeline(n) ==
    \/ OpenSupplier(n)
    \/ RunSupplier(n)
    \/ RunItems(n)
    \/ RunPO(n)
    \/ RunInvoice(n)

\* ------------------------------------------------------------------ events
\* tipo_evento as the fetch delivers it, a sequence of characters.
EventTypes ==
    {<<"1", "0", "1", "1", "0", "1">>,
     <<"1", "1", "0", "1", "1", "0">>,
     <<"C", "a", "n", "c", "e", "l">>,
     <<"2", "0", "2", "2", "0", "2">>}

\* str.lower() on the characters that occur in EventTypes.
Lower(s) == [i \in 1..Len(s) |-> IF s[i] = "C" THEN "c" ELSE s[i]]

CancellationIndicators ==
    {<<"c", "a", "n", "c", "e", "l", "a", "m", "e", "n", "t", "o">>,
     <<"c", "a", "n", "c", "e", "l">>,
     <<"1", "0", "1", "1", "0", "1">>,
     <<"1", "0", "1">>,
     <<"e", "1", "0", "1", "1", "0", "1">>}

\* ind in s
Contains(s, ind) ==
    \E i \in 0..Len(s) :
        /\ i + Len(ind) <= Len(s)
        /\ \A j \in 1..Len(ind) : s[i + j] = ind[j]

IsCancellationEvent(tipo) ==
    \E ind \in CancellationIndicators : Contains(Lower(tipo), ind)

CancellationEventTypes == {tipo \in EventTypes : IsCancellationEvent(tipo)}

\* The compensation that cancels whatever is not cancelled yet, drafts too.
HandleLinkedPurchaseInvoiceCancelOnly(inv, p, act_ok) ==
    IF ~(p \in 1..Len(inv)) \/ inv[p].deleted
    THEN [success |-> FALSE, inv |-> inv, attempt |-> "none",
          action_required |-> "Check document status"]
    ELSE IF inv[p].docstatus = 2
    THEN [success |-> TRUE, inv |-> inv, attempt |-> "none", action_required |-> None]
    ELSE IF act_ok
         THEN [success |-> TRUE, inv |-> [inv EXCEPT ![p].docstatus = 2],
               attempt |-> "cancel", action_required |-> None]
         ELSE [success |-> FALSE, inv |-> inv, attempt |-> "cancel",
               action_required |-> "Manual cancellation required"]

\* _handle_linked_purchase_invoice: the action attempted on the invoice, the
\* invoice table afterwards, whether the compensation succeeded and the
\* action_required text of a failure.  act_ok is whether cancel() /
\* delete_doc succeeds.
HandleLinkedPurchaseInvoice(inv, p, act_ok) ==
    IF ~(p \in 1..Len(inv)) \/ inv[p].deleted
    THEN [success |-> FALSE, inv |-> inv, attempt |-> "none",
          action_required |-> "Check document status"]
    ELSE IF inv[p].docstatus = 2
    THEN [success |-> TRUE, inv |-> inv, attempt |-> "none", action_required |-> None]
    ELSE IF inv[p].docstatus = 1
    THEN IF act_ok
         THEN [success |-> TRUE, inv |-> [inv EXCEPT ![p].docstatus = 2],
               attempt |-> "cancel", action_required |-> None]
         ELSE [success |-> FALSE, inv |-> inv, attempt |-> "cancel",
               action_required |-> "Manual cancellation required"]
    ELSE IF act_ok
         THEN [success |-> TRUE, inv |-> [inv EXCEPT ![p].deleted = TRUE],
               attempt |-> "delete", action_required |-> None]
         ELSE [success |-> FALSE, inv |-> inv, attempt |-> "delete",
               action_required |-> "Manual deletion required"]

\* The alert sent without looking for a recipient.
SendCancellationAlertUnaddressed(issues) ==
    IF ~settings.send_cancellation_alerts THEN {} ELSE issues

\* _send_cancellation_alert: the issues handed to frappe.sendmail.
SendCancellationAlert(issues) ==
    IF ~settings.send_cancellation_alerts THEN {}
    ELSE IF ~settings.alert_email THEN {}
    ELSE issues

\* The set_value without the status field.
MarkCancelledFlagOnly(r) == [r EXCEPT !.cancelada = TRUE]

\* frappe.db.set_value in _process_evento
MarkCancelled(r) == [r EXCEPT !.cancelada = TRUE, !.processing_status = "Cancelled"]

\* _process_evento for an event that names access key chave.  stored is
\* whether the event carries its XML and the save that appends it goes through.
ProcessEventoWrites(chave, tipo) ==
    IF WithKey(chave) = {} \/ tipo \notin CancellationEventTypes
    THEN UNCHANGED <<db, invoices>> /\ outbox' = {}
    ELSE \E n \in WithKey(chave), act_ok, stored \in BOOLEAN :
            LET nf_doc == db[n]
                res == IF nf_doc.purchase_invoice # 0
                       THEN HandleLinkedPurchaseInvoice(invoices,
                                nf_doc.purchase_invoice, act_ok)
                       ELSE [success |-> TRUE, inv |-> invoices]
                linked_docs_issues ==
                    IF res.success THEN {}
                    ELSE {[document_name |-> nf_doc.purchase_invoice,
                           action_required |-> res.action_required]}
                marked == MarkCancelled(db[n])
            IN  /\ db' = [db EXCEPT ![n] = marked]
                /\ invoices' = IF stored
                               THEN OnUpdate(res.inv, marked)
                               ELSE res.inv
                /\ outbox' = IF linked_docs_issues # {}
                             THEN SendCancellationAlert(linked_docs_issues)
                             ELSE {}

ProcessEvento(chave, tipo) ==
    /\ ProcessEventoWrites(chave, tipo)
    /\ UNCHANGED <<settings, dfe, company, fetch, suppliers, items, run, batch, pending, calc>>

\* ---------------------------------------------------------- manual actions
\* The whitelisted methods of NotaFiscal run on a freshly loaded document and
\* end with self.save(); save_ok is whether that save goes through.
ManualCreateSupplier(n) ==
    /\ db[n].exists
    /\ \E create_ok, save_ok \in BOOLEAN :
          LET res == ProcessNfSupplier(suppliers, create_ok)
              d == [db[n] EXCEPT !.supplier = res.supplier]
          IN  /\ suppliers' = res.suppliers
              /\ IF save_ok THEN Save(n, d, invoices) ELSE UNCHANGED <<db, invoices>>
    /\ UNCHANGED <<settings, dfe, company, fetch, items, run, batch, pending, outbox, calc>>

ManualCreateItems(n) ==
    /\ db[n].exists
    /\ \E create_ok \in [Lines -> BOOLEAN], save_ok \in BOOLEAN :
          LET res == ProcessNfItems(db[n], items, create_ok)
              d == [db[n] EXCEPT !.item = res.item, !.item_creation_status = res.status]
          IN  /\ items' = res.cat
              /\ IF save_ok THEN Save(n, d, invoices) ELSE UNCHANGED <<db, invoices>>
    /\ UNCHANGED <<settings, dfe, company, fetch, suppliers, run, batch, pending, outbox, calc>>

ManualMatchPurchaseOrder(n) ==
    /\ db[n].exists
    /\ \E save_ok \in BOOLEAN, score \in PoScores :
          LET d == [db[n] EXCEPT !.purchase_order = AutoLinkPo(db[n], score)]
          IN  IF save_ok THEN Save(n, d, invoices) ELSE UNCHANGED <<db, invoices>>
    /\ UNCHANGED <<settings, dfe, company, fetch, suppliers, items, run, batch, pending, outbox, calc>>

\* api.link_purchase_order: the order named by the caller is written to the
\* record, which is saved.
LinkPurchaseOrder(n) ==
    /\ db[n].exists
    /\ \E save_ok \in BOOLEAN :
          IF save_ok
          THEN Save(n, [db[n] EXCEPT !.purchase_order = PurchaseOrderName], invoices)
          ELSE UNCHANGED <<db, invoices>>
    /\ UNCHANGED <<settings, dfe, company, fetch, suppliers, items, run, batch, pending, outbox, calc>>

\* NotaFiscal.create_purchase_invoice -> InvoiceCreator.create_purchase_invoice
\* with check_existing on.
ManualCreatePurchaseInvoice(n) ==
    /\ db[n].exists
    /\ \E submit \in BOOLEAN, out \in {"ok", "insert", "submit", "save"} :
          IF db[n].supplier = None
          THEN UNCHANGED <<db, invoices>>
          ELSE IF FindExistingInvoice(invoices, n, db[n]) # {}
          THEN \E p \in FindExistingInvoice(invoices, n, db[n]) :
                  LET linked == LinkExistingInvoice(invoices, n, db[n], p)
                  IN  IF out = "ok"
                      THEN Save(n, [db[n] EXCEPT !.purchase_invoice = p], linked)
                      ELSE db' = db /\ invoices' = linked
          ELSE IF out = "insert"
          THEN UNCHANGED <<db, invoices>>
          ELSE /\ Len(invoices) < MaxPI
               /\ LET p == Len(invoices) + 1
                      d == [db[n] EXCEPT !.purchase_invoice = p]
                      draft == Append(invoices, NewInvoice(n, db[n], 0))
                      made == IF submit THEN [draft EXCEPT ![p].docstatus = 1] ELSE draft
                  IN  IF out = "submit" /\ submit
                      THEN db' = db /\ invoices' = draft
                      ELSE IF out = "save"
                      THEN db' = db /\ invoices' = made
                      ELSE Save(n, d, made)
    /\ UNCHANGED <<settings, dfe, company, fetch, suppliers, items, run, batch, pending, outbox, calc>>

\* NotaFiscal.parse_xml: the parsed fields are the ones the record was created
\* from; the method sets processing_status "Parsed" and saves.
ParseXml(n) ==
    /\ db[n].exists
    /\ \E save_ok \in BOOLEAN :
          IF save_ok
          THEN Save(n, [db[n] EXCEPT !.processing_status = "Parsed"], invoices)
          ELSE UNCHANGED <<db, invoices>>
    /\ UNCHANGED <<settings, dfe, company, fetch, suppliers, items, run, batch, pending, outbox, calc>>

Manual(n) ==
    \/ ManualCreateSupplier(n)
    \/ ManualCreateItems(n)
    \/ ManualMatchPurchaseOrder(n)
    \/ LinkPurchaseOrder(n)
    \/ ManualCreatePurchaseInvoice(n)
    \/ ParseXml(n)

\* NFProcessor.process_nota_fiscal_background: the job skips a cancelled
\* record without calling process().
ProcessNotaFiscalBackground(n) ==
    /\ Finished
    /\ ~batch.active
    /\ db[n].exists
    /\ run' = IF IsCancelled(db[n])
              THEN run
              ELSE [nf |-> n, pc |-> "checked", doc |-> db[n], result |-> None]
    /\ UNCHANGED <<settings, dfe, company, fetch, db, invoices, suppliers, items, batch, pending, outbox, calc>>

\* --------------------------------------------------------------- ingestion
\* One document of the SEFAZ fetch loop that is not an event.  chave is the
\* ChaveAcesso of the envelope, parsed the access key NFXMLParser reads from
\* the XML (None when the dialect carries none); nsu_seen is whether a record
\* with the document's NSU exists; insert_ok whether the insert goes through.
CreateNotaFiscalFromXml(chave, parsed, numero) ==
    NewRecord(IF parsed # None THEN parsed ELSE chave, numero, TRUE, FALSE)

FetchNfseDocumentWrites(chave, parsed, numero, nsu, nsu_seen) ==
    IF chave # None /\ WithKey(chave) # {}
    THEN \E existing \in WithKey(chave) :
            db' = [db EXCEPT ![existing].origin_sefaz = TRUE]
    ELSE \E insert_ok \in BOOLEAN :
            IF ~nsu_seen /\ insert_ok /\ FreeNames # {}
            THEN db' = [db EXCEPT ![NextName] =
                           [CreateNotaFiscalFromXml(chave, parsed, numero)
                               EXCEPT !.nsu = nsu]]
            ELSE UNCHANGED db

\* The same outside a fetch loop: the NSU is not tracked.
FetchNfseDocument(chave, parsed, numero) ==
    /\ \E nsu_seen \in BOOLEAN :
          FetchNfseDocumentWrites(chave, parsed, numero, 0, nsu_seen)
    /\ UNCHANGED <<settings, dfe, company, fetch, invoices, suppliers, items, run, batch, pending, outbox, calc>>

\* create_nf_from_xml without its duplicate check.
CreateNfFromXmlAlways(chave, numero) ==
    /\ \E insert_ok \in BOOLEAN :
          IF insert_ok /\ FreeNames # {}
          THEN db' = [db EXCEPT ![NextName] = NewRecord(chave, numero, FALSE, TRUE)]
          ELSE UNCHANGED db
    /\ UNCHANGED <<settings, dfe, company, fetch, invoices, suppliers, items, run, batch, pending, outbox, calc>>

\* email_monitor.create_nf_from_xml: chave is the access key the parser reads.
CreateNfFromXml(chave, numero) ==
    /\ IF chave # None /\ WithKey(chave) # {}
       THEN \E existing \in WithKey(chave) :
               db' = [db EXCEPT ![existing].origin_email = TRUE]
       ELSE \E insert_ok \in BOOLEAN :
               IF insert_ok /\ FreeNames # {}
               THEN db' = [db EXCEPT ![NextName] = NewRecord(chave, numero, FALSE, TRUE)]
               ELSE UNCHANGED db
    /\ UNCHANGED <<settings, dfe, company, fetch, invoices, suppliers, items, run, batch, pending, outbox, calc>>

\* The documents the fetch delivers: the envelope carries the document's access
\* key, and the XML carries the same key or none.
SefazDocuments ==
    {d \in [chave : Keys, parsed : Keys \cup {None}, numero : BOOLEAN] :
        d.parsed \in {None, d.chave}}

\* --------------------------------------------------------- SEFAZ fetch loop
\* The distribution feed: the NSU of a document is its position.  A feed
\* holds the two documents and the cancellation event of the first one, in
\* any order and number.
CancellationCode == <<"1", "0", "1", "1", "0", "1">>
FeedDocuments ==
    {[TipoDocumento |-> "NFSE", ChaveAcesso |-> k, TipoEvento |-> <<>>] : k \in Keys}
    \cup {[TipoDocumento |-> "EVENTO", ChaveAcesso |-> "K1",
           TipoEvento |-> CancellationCode]}
Feeds == [1..MaxFeed -> FeedDocuments]

\* frappe.db.exists("Nota Fiscal", {"nsu": str(nsu), "company": ...})
WithNsu(nsu) == {n \in NFNames : db[n].exists /\ db[n].nsu = nsu}

MaxOf(S) == CHOOSE x \in S : \A y \in S : y <= x

\* The LoteDFe the authority returns for GET endpoint/last_nsu: the next k
\* documents after that NSU.
LoteDFe(last_nsu, k) ==
    [i \in 1..(IF last_nsu + k <= Len(dfe.feed) THEN k ELSE Len(dfe.feed) - last_nsu) |->
        [NSU |-> last_nsu + i, TipoDocumento |-> dfe.feed[last_nsu + i].TipoDocumento,
         ChaveAcesso |-> dfe.feed[last_nsu + i].ChaveAcesso,
         TipoEvento |-> dfe.feed[last_nsu + i].TipoEvento]]

\* _fetch_nfse_documents up to the loop: last_nsu is read from the company
\* settings and the response is received.  A manual fetch (fetch_now,
\* fetch_documents) holds the settings document its caller loaded before.
FetchStart(manual) ==
    /\ fetch.pc \in {"idle", "done", "raised"}
    /\ \E k \in 0..MaxLote :
          LET last_nsu == company.last_nsu_nfse
              documents == LoteDFe(last_nsu, k)
          IN  /\ fetch' = [pc |-> "loop", manual |-> manual, last_nsu |-> last_nsu,
                           loaded |-> company, documents |-> documents,
                           next |-> 1, status |-> None]
              /\ dfe' = [dfe EXCEPT !.delivered =
                            @ \cup {documents[i].NSU : i \in 1..Len(documents)}]
    /\ UNCHANGED <<settings, company, db, invoices, suppliers, items, run, batch,
                   pending, outbox, calc>>

\* One pass of the loop over LoteDFe; an exception of the pass is logged and
\* the loop goes on.
FetchDocument ==
    /\ fetch.pc = "loop"
    /\ fetch.next <= Len(fetch.documents)
    /\ LET doc_data == fetch.documents[fetch.next]
       IN  IF doc_data.TipoDocumento = "EVENTO"
           THEN ProcessEventoWrites(doc_data.ChaveAcesso, doc_data.TipoEvento)
           ELSE /\ FetchNfseDocumentWrites(doc_data.ChaveAcesso, doc_data.ChaveAcesso,
                                           TRUE, doc_data.NSU,
                                           WithNsu(doc_data.NSU) # {})
                /\ UNCHANGED <<invoices, outbox>>
    /\ fetch' = [fetch EXCEPT !.next = @ + 1]
    /\ UNCHANGED <<settings, dfe, company, suppliers, items, run, batch, pending, calc>>

\* The cursor after the loop: the highest NSU of the whole LoteDFe when it is
\* above the cursor read at the start.
MaxNsu(last_nsu, documents) ==
    MaxOf({last_nsu} \cup {documents[i].NSU : i \in 1..Len(documents)})

\* After the loop: update_last_nsu saves the new cursor (nsu_ok is whether that
\* save goes through; when it raises, fetch_documents_for_company records the
\* error).  This ends a scheduled fetch; a manual one is back in its caller.
FetchFinish ==
    /\ fetch.pc = "loop"
    /\ fetch.next > Len(fetch.documents)
    /\ \E nsu_ok \in BOOLEAN :
          LET max_nsu == MaxNsu(fetch.last_nsu, fetch.documents)
              moved == max_nsu > fetch.last_nsu
          IN  /\ company' = IF moved /\ nsu_ok
                            THEN [company EXCEPT !.last_nsu_nfse = max_nsu]
                            ELSE company
              /\ fetch' = [fetch EXCEPT
                              !.pc = IF fetch.manual THEN "fetched" ELSE "done",
                              !.status = IF moved /\ ~nsu_ok THEN "error" ELSE "success"]
    /\ UNCHANGED <<settings, dfe, db, invoices, suppliers, items, run, batch,
                   pending, outbox, calc>>

\* fetch_now / fetch_documents after fetch_documents_for_company has returned:
\* last_sync is set on the settings document loaded before the fetch and that
\* document is saved; save_ok is whether the save goes through.
FetchNowSave ==
    /\ fetch.pc = "fetched"
    /\ \E save_ok \in BOOLEAN :
          IF save_ok
          THEN /\ company' = fetch.loaded
               /\ fetch' = [fetch EXCEPT !.pc = "done"]
          ELSE /\ company' = company
               /\ fetch' = [fetch EXCEPT !.pc = "raised"]
    /\ UNCHANGED <<settings, dfe, db, invoices, suppliers, items, run, batch,
                   pending, outbox, calc>>

\* ------------------------------------------------------------ batch_process
RecordSkipped(b, name) ==
    [b EXCEPT !.skipped = @ + 1, !.details = Append(@, <<name, "skipped">>),
              !.next = @ + 1]

\* An error that is counted but leaves no outcome entry.
RecordErrorDropped(b, name) ==
    [b EXCEPT !.errors = @ + 1, !.next = @ + 1, !.current = 0]

RecordError(b, name) ==
    [b EXCEPT !.errors = @ + 1, !.details = Append(@, <<name, "error">>),
              !.next = @ + 1, !.current = 0]

RecordProcessed(b, name, status) ==
    [b EXCEPT !.processed = @ + 1,
              !.completed = IF status = "Completed" THEN @ + 1 ELSE @,
              !.details = Append(@, <<name, IF status = "Completed"
                                            THEN "completed" ELSE status>>),
              !.next = @ + 1, !.current = 0]

BatchRequests == UNION {[1..k -> NFNames] : k \in 1..MaxBatch}

BatchStart(documents) ==
    /\ Finished
    /\ ~batch.active
    /\ batch' = [IdleBatch EXCEPT !.active = TRUE, !.documents = documents]
    /\ run' = IdleRun
    /\ UNCHANGED <<settings, dfe, company, fetch, db, invoices, suppliers, items, pending, outbox, calc>>

\* The head of one loop iteration: get_doc, the two skips, the call of process().
BatchLoad ==
    /\ batch.active /\ batch.current = 0 /\ batch.next <= Len(batch.documents)
    /\ LET name == batch.documents[batch.next]
       IN  \E load_ok \in BOOLEAN :
              IF ~db[name].exists \/ ~load_ok
              THEN batch' = RecordError(batch, name) /\ run' = run
              ELSE IF IsCancelled(db[name]) \/ db[name].processing_status = "Completed"
              THEN batch' = RecordSkipped(batch, name) /\ run' = run
              ELSE /\ batch' = [batch EXCEPT !.current = name]
                   /\ run' = [nf |-> name, pc |-> "checked", doc |-> db[name],
                              result |-> None]
    /\ UNCHANGED <<settings, dfe, company, fetch, db, invoices, suppliers, items, pending, outbox, calc>>

\* process() has returned its result or raised.
BatchCollect ==
    /\ batch.active /\ batch.current # 0 /\ run.nf = batch.current
    /\ run.pc \in {"done", "raised"}
    /\ batch' = IF run.pc = "done"
                THEN RecordProcessed(batch, batch.current, run.result)
                ELSE RecordError(batch, batch.current)
    /\ run' = IdleRun
    /\ UNCHANGED <<settings, dfe, company, fetch, db, invoices, suppliers, items, pending, outbox, calc>>

BatchReturn ==
    /\ batch.active /\ batch.current = 0 /\ batch.next > Len(batch.documents)
    /\ batch' = IdleBatch
    /\ UNCHANGED <<settings, dfe, company, fetch, db, invoices, suppliers, items, run, pending, outbox, calc>>

\* ----------------------------------------------------------- specifications
\* The pipeline and the issuer's events on one ingested record.
Next ==
    \/ \E n \in NFNames : ProcessStart(n)
    \/ \E n \in NFNames : ProcessNotaFiscalBackground(n)
    \/ \E n \in NFNames : Pipeline(n)
    \/ \E chave \in Keys, tipo \in EventTypes : ProcessEvento(chave, tipo)

Spec == Init /\ [][Next]_vars

\* The pipeline running alone on the record: events arrive between executions.
NextSerial ==
    \/ \E n \in NFNames : ProcessStart(n)
    \/ \E n \in NFNames : ProcessNotaFiscalBackground(n)
    \/ \E n \in NFNames : Pipeline(n)
    \/ \E chave \in Keys, tipo \in EventTypes : Finished /\ ProcessEvento(chave, tipo)

SpecSerial == Init /\ [][NextSerial]_vars

\* The same with the manual actions, taken between pipeline executions, and
\* the repeated ingestion of the documents already stored.
InitManual ==
    /\ Init
    /\ settings.auto_create_supplier /\ settings.enable_po_matching
    /\ settings.auto_create_invoice /\ ~settings.auto_submit
    /\ db[1].chave # None

Reingest(n) ==
    /\ db[n].exists /\ db[n].chave # None
    /\ \/ \E parsed \in {None, db[n].chave} :
             FetchNfseDocument(db[n].chave, parsed, db[n].numero)
       \/ CreateNfFromXml(db[n].chave, db[n].numero)

NextManual ==
    \/ Next
    \/ \E n \in NFNames : Finished /\ Manual(n)
    \/ \E n \in NFNames : Reingest(n)

SpecManual == InitManual /\ [][NextManual]_vars

\* The two ingestion channels and the events on an empty store.
InitIngest ==
    /\ settings = [auto_create_supplier |-> TRUE, auto_create_item |-> TRUE,
                   enable_po_matching |-> TRUE, auto_create_invoice |-> TRUE,
                   auto_submit |-> FALSE, send_cancellation_alerts |-> TRUE,
                   alert_email |-> TRUE]
    /\ db = [n \in NFNames |-> NoRecord]
    /\ invoices = <<>>
    /\ suppliers = 0
    /\ items = [c \in {ItemCodes[l] : l \in Lines} |-> 0]
    /\ run = IdleRun
    /\ batch = IdleBatch
    /\ pending = NoPending
    /\ outbox = {}
    /\ calc = NoCall
    /\ dfe = NoFeed
    /\ company = NewCompany
    /\ fetch = IdleFetch

NextIngest ==
    \/ \E d \in SefazDocuments : FetchNfseDocument(d.chave, d.parsed, d.numero)
    \/ \E chave \in Keys \cup {None}, numero \in BOOLEAN : CreateNfFromXml(chave, numero)
    \/ \E chave \in Keys, tipo \in EventTypes : ProcessEvento(chave, tipo)

SpecIngest == InitIngest /\ [][NextIngest]_vars

\* batch_process over a store that holds one record to process and, for the
\* second name, nothing or a record cancelled before it was processed.
InitBatch ==
    /\ settings \in {s \in SettingsSpace :
                        /\ s.auto_create_supplier /\ s.enable_po_matching
                        /\ s.auto_create_invoice /\ ~s.auto_submit
                        /\ AlertsConfigured(s)}
    /\ \E second \in {NoRecord, MarkCancelled(NewRecord("K2", TRUE, TRUE, FALSE))} :
          db = [n \in NFNames |->
                  IF n = 1 THEN NewRecord("K1", TRUE, FALSE, TRUE)
                  ELSE IF n = 2 THEN second ELSE NoRecord]
    /\ invoices = <<>>
    /\ suppliers = 0
    /\ items = [c \in {ItemCodes[l] : l \in Lines} |-> 0]
    /\ run = IdleRun
    /\ batch = IdleBatch
    /\ pending = NoPending
    /\ outbox = {}
    /\ calc = NoCall
    /\ dfe = NoFeed
    /\ company = NewCompany
    /\ fetch = IdleFetch

NextBatch ==
    \/ \E documents \in BatchRequests : BatchStart(documents)
    \/ BatchLoad
    \/ BatchCollect
    \/ BatchReturn
    \/ \E n \in NFNames : Pipeline(n)
    \/ \E chave \in Keys, tipo \in EventTypes : ProcessEvento(chave, tipo)

SpecBatch == InitBatch /\ [][NextBatch]_vars

\* The event types by which the issuer cancels a document: code 101101 and
\* the name "Cancelamento".  110110 is a correction, 202202 a confirmation.
IssuerCancellationTypes ==
    {<<"1", "0", "1", "1", "0", "1">>, <<"C", "a", "n", "c", "e", "l">>}

\* The pipeline on a record for which the fetch delivers events of every kind
\* but the issuer's cancellation.
NextOtherEvents ==
    \/ \E n \in NFNames : ProcessStart(n)
    \/ \E n \in NFNames : ProcessNotaFiscalBackground(n)
    \/ \E n \in NFNames : Pipeline(n)
    \/ \E chave \in Keys, tipo \in EventTypes \ IssuerCancellationTypes :
          ProcessEvento(chave, tipo)

SpecOtherEvents == Init /\ [][NextOtherEvents]_vars

\* The pipeline and the events under every setting of the cancellation
\* alerts, with the creation of suppliers, items and invoices switched on.
InitAlerts ==
    /\ settings \in {s \in SettingsSpace :
                        /\ s.auto_create_supplier /\ s.auto_create_item
                        /\ s.enable_po_matching /\ s.auto_create_invoice}
    /\ \E id \in Identities :
          db = [n \in NFNames |->
                  IF n = 1 THEN NewRecord(id[1], id[2], FALSE, TRUE) ELSE NoRecord]
    /\ invoices = <<>>
    /\ suppliers = 0
    /\ items = [c \in {ItemCodes[l] : l \in Lines} |-> 0]
    /\ run = IdleRun
    /\ batch = IdleBatch
    /\ pending = NoPending
    /\ outbox = {}
    /\ calc = NoCall
    /\ dfe = NoFeed
    /\ company = NewCompany
    /\ fetch = IdleFetch

SpecAlerts == InitAlerts /\ [][Next]_vars

\* ------------------------------------------------- concurrent ingestion
\* The two channels run as separate jobs.  Each one first looks the access key
\* up (frappe.db.exists) and later writes: the origin flag on the record it
\* found, or a new record when it found none.
Lookup(c, chave) ==
    /\ ~pending[c].busy
    /\ \E existing \in (IF WithKey(chave) = {} THEN {0} ELSE WithKey(chave)) :
          pending' = [pending EXCEPT
                        ![c] = [busy |-> TRUE, chave |-> chave, existing |-> existing]]
    /\ UNCHANGED <<settings, dfe, company, fetch, db, invoices, suppliers, items, run, batch, outbox, calc>>

SefazLookup(chave) == Lookup("sefaz", chave)
EmailLookup(chave) == Lookup("email", chave)

SefazWrite ==
    /\ pending["sefaz"].busy
    /\ LET chave == pending["sefaz"].chave
           existing == pending["sefaz"].existing
       IN  IF existing # 0
           THEN db' = [db EXCEPT ![existing].origin_sefaz = TRUE]
           ELSE \E nsu_seen, insert_ok \in BOOLEAN :
                   IF ~nsu_seen /\ insert_ok /\ FreeNames # {}
                   THEN db' = [db EXCEPT ![NextName] =
                                  CreateNotaFiscalFromXml(chave, chave, TRUE)]
                   ELSE UNCHANGED db
    /\ pending' = [pending EXCEPT !["sefaz"] = NoPending["sefaz"]]
    /\ UNCHANGED <<settings, dfe, company, fetch, invoices, suppliers, items, run, batch, outbox, calc>>

EmailWrite ==
    /\ pending["email"].busy
    /\ LET chave == pending["email"].chave
           existing == pending["email"].existing
       IN  IF existing # 0
           THEN db' = [db EXCEPT ![existing].origin_email = TRUE]
           ELSE \E insert_ok \in BOOLEAN :
                   IF insert_ok /\ FreeNames # {}
                   THEN db' = [db EXCEPT ![NextName] = NewRecord(chave, TRUE, FALSE, TRUE)]
                   ELSE UNCHANGED db
    /\ pending' = [pending EXCEPT !["email"] = NoPending["email"]]
    /\ UNCHANGED <<settings, dfe, company, fetch, invoices, suppliers, items, run, batch, outbox, calc>>

NextRace ==
    \/ \E chave \in Keys : SefazLookup(chave)
    \/ \E chave \in Keys : EmailLookup(chave)
    \/ SefazWrite
    \/ EmailWrite

\* Every job the scheduler starts runs to its end.
SpecRace == InitIngest /\ [][NextRace]_vars /\ WF_vars(NextRace)

\* -------------------------------------------------- resolvers and creators
\* The calls below are made on their own: calc holds the call with its
\* arguments and what it returned, until the caller has taken the result.
ReturnCall ==
    /\ calc.fn # None
    /\ calc' = NoCall
    /\ UNCHANGED <<settings, dfe, company, fetch, db, invoices, suppliers, items, run, batch, pending, outbox>>

\* The item rows a linked Purchase Order can carry: ERPNext stores no Purchase
\* Order without a row.
PoLineCounts == 1..MaxPoLines
ServiceItem == "SERVICE"

\* The item rows of a document, each with its resolved item or none.
NfItemLists ==
    UNION {[1..k -> {None} \cup {ItemCodes[l] : l \in Lines}] :
              k \in 0..Cardinality(Lines)}

\* InvoiceCreator._add_items_from_po
AddItemsFromPo(po_lines) ==
    [i \in 1..po_lines |-> [item_code |-> "PO-ITEM", po_detail |-> i]]

\* The rows of the document without the service line and without the throw.
AddItemsFromNfResolvedOnly(nf_items, service_item) ==
    LET linked == SelectSeq(nf_items, LAMBDA i : i # None)
    IN  [raised |-> FALSE,
         items |-> [i \in 1..Len(linked) |-> [item_code |-> linked[i], po_detail |-> 0]]]

\* InvoiceCreator._add_items_from_nf: the rows that carry an item, else one
\* row for the service item, else frappe.throw.
AddItemsFromNf(nf_items, service_item) ==
    LET linked == SelectSeq(nf_items, LAMBDA i : i # None)
    IN  IF linked # <<>>
        THEN [raised |-> FALSE,
              items |-> [i \in 1..Len(linked) |->
                           [item_code |-> linked[i], po_detail |-> 0]]]
        ELSE IF service_item # None
        THEN [raised |-> FALSE,
              items |-> <<[item_code |-> service_item, po_detail |-> 0]>>]
        ELSE [raised |-> TRUE, items |-> <<>>]

\* InvoiceCreator._add_intl_invoice_item
AddIntlInvoiceItem(service_item) ==
    IF service_item # None
    THEN [raised |-> FALSE,
          items |-> <<[item_code |-> service_item, po_detail |-> 0]>>]
    ELSE [raised |-> TRUE, items |-> <<>>]

\* InvoiceCreator.create_purchase_invoice up to invoice.insert: whether it
\* raised, whether it linked an existing invoice instead, whether an invoice
\* was inserted and with which rows.
CreatePurchaseInvoice(req) ==
    LET none == [error |-> FALSE, linked |-> FALSE, inserted |-> FALSE, items |-> <<>>]
        built == IF req.document_type = "Invoice"
                 THEN AddIntlInvoiceItem(req.service_item)
                 ELSE IF req.purchase_order # 0
                 THEN [raised |-> FALSE, items |-> AddItemsFromPo(req.purchase_order)]
                 ELSE AddItemsFromNf(req.items, req.service_item)
    IN  IF ~req.supplier THEN [none EXCEPT !.error = TRUE]
        ELSE IF req.existing THEN [none EXCEPT !.linked = TRUE]
        ELSE IF built.raised \/ ~req.insert_ok THEN [none EXCEPT !.error = TRUE]
        ELSE [none EXCEPT !.inserted = TRUE, !.items = built.items]

InvoiceRequests ==
    [supplier : BOOLEAN, existing : BOOLEAN, document_type : {"NF", "Invoice"},
     purchase_order : {0} \cup PoLineCounts, items : NfItemLists,
     service_item : {None, ServiceItem}, insert_ok : BOOLEAN]

CreatePurchaseInvoiceCall ==
    /\ calc.fn = None
    /\ \E req \in InvoiceRequests :
          calc' = [fn |-> "create_purchase_invoice", req |-> req,
                   out |-> CreatePurchaseInvoice(req)]
    /\ UNCHANGED <<settings, dfe, company, fetch, db, invoices, suppliers, items, run, batch, pending, outbox>>

\* The scores of the candidate Purchase Orders, in the order of the query.
CandidateScores == {0, 29, 30, 49, 50, 100}
CandidateLists == UNION {[1..k -> CandidateScores] : k \in 0..MaxCand}

\* The loop of auto_link_po over the candidates from the i-th on: the index
\* of the best match so far (0 for none) and its score.
RECURSIVE BestFrom(_, _, _, _)
BestFrom(scores, i, best_match, best_score) ==
    IF i > Len(scores) THEN [match |-> best_match, score |-> best_score]
    ELSE IF scores[i] > best_score
    THEN BestFrom(scores, i + 1, i, scores[i])
    ELSE BestFrom(scores, i + 1, best_match, best_score)

\* The thresholds taken as strict.
AutoLinkPoCandidatesStrict(supplier, scores) ==
    LET best == BestFrom(scores, 1, 0, 0)
    IN  IF ~supplier THEN [po |-> 0, status |-> "Not Applicable"]
        ELSE IF scores = <<>> THEN [po |-> 0, status |-> "Not Found"]
        ELSE IF best.score > LinkThreshold
        THEN [po |-> best.match, status |-> "Linked"]
        ELSE IF best.score > PartialThreshold
        THEN [po |-> best.match, status |-> "Partial Match"]
        ELSE [po |-> 0, status |-> "Not Found"]

\* POMatcher.auto_link_po on the candidates' scores: the candidate returned
\* (its index, 0 for none) and the status.
AutoLinkPoCandidates(supplier, scores) ==
    LET best == BestFrom(scores, 1, 0, 0)
    IN  IF ~supplier THEN [po |-> 0, status |-> "Not Applicable"]
        ELSE IF scores = <<>> THEN [po |-> 0, status |-> "Not Found"]
        ELSE IF best.score >= LinkThreshold
        THEN [po |-> best.match, status |-> "Linked"]
        ELSE IF best.score >= PartialThreshold
        THEN [po |-> best.match, status |-> "Partial Match"]
        ELSE [po |-> 0, status |-> "Not Found"]

AutoLinkPoCall ==
    /\ calc.fn = None
    /\ \E supplier \in BOOLEAN, scores \in CandidateLists :
          calc' = [fn |-> "auto_link_po", supplier |-> supplier, scores |-> scores,
                   out |-> AutoLinkPoCandidates(supplier, scores)]
    /\ UNCHANGED <<settings, dfe, company, fetch, db, invoices, suppliers, items, run, batch, pending, outbox>>

\* The item codes on the rows of a Purchase Order.
PoItemLists ==
    UNION {[1..k -> {ItemCodes[l] : l \in Lines}] : k \in PoLineCounts}

Abs(x) == IF x < 0 THEN 0 - x ELSE x

\* The share of the document's rows counted over the resolved rows only.
CalculateItemMatchScoreOfResolved(nf_items, po_items) ==
    IF nf_items = <<>> \/ po_items = <<>> THEN 0
    ELSE LET resolved == {i \in 1..Len(nf_items) : nf_items[i] # None}
             matches == Cardinality({i \in resolved :
                            \E j \in 1..Len(po_items) : po_items[j] = nf_items[i]})
         IN  IF resolved # {} THEN (matches * 40) \div Cardinality(resolved) ELSE 0

\* POMatcher._calculate_item_match_score: int((matches / total_items) * 40)
CalculateItemMatchScore(nf_items, po_items) ==
    IF nf_items = <<>> \/ po_items = <<>> THEN 0
    ELSE LET matches == Cardinality({i \in 1..Len(nf_items) :
                            /\ nf_items[i] # None
                            /\ \E j \in 1..Len(po_items) : po_items[j] = nf_items[i]})
             total_items == Len(nf_items)
         IN  IF total_items > 0 THEN (matches * 40) \div total_items ELSE 0

\* POMatcher._calculate_match_score.  The tolerance is the setting in per
\* cent, 5 when it is not set; diff_pct <= tolerance is compared exactly.
CalculateMatchScore(req) ==
    LET tolerance == IF req.tolerance_percent = 0 THEN 5 ELSE req.tolerance_percent
        diff == Abs(req.nf_value - req.po_value) * 100
        value == IF req.nf_value # 0 /\ req.po_value # 0 /\ req.po_value > 0
                 THEN IF diff <= tolerance * req.po_value THEN 30
                      ELSE IF diff <= tolerance * 2 * req.po_value THEN 15
                      ELSE 0
                 ELSE 0
        nf_item_count == Len(req.nf_items)
        po_item_count == Len(req.po_items)
        count == IF nf_item_count = po_item_count THEN 20
                 ELSE IF Abs(nf_item_count - po_item_count) <= 2 THEN 10
                 ELSE 0
        date == IF req.days_diff <= 7 THEN 10
                ELSE IF req.days_diff <= 14 THEN 5
                ELSE 0
        score == value + count + CalculateItemMatchScore(req.nf_items, req.po_items) + date
    IN  IF score < 100 THEN score ELSE 100

ScoreRequests ==
    [nf_value : {0, 900, 1000}, po_value : {0, 1000, 1020},
     tolerance_percent : {0, 5, 10},
     nf_items : NfItemLists, po_items : PoItemLists,
     days_diff : {0, 7, 8, 14, 15}]

CalculateMatchScoreCall ==
    /\ calc.fn = None
    /\ \E req \in ScoreRequests :
          calc' = [fn |-> "_calculate_match_score", req |-> req,
                   out |-> CalculateMatchScore(req)]
    /\ UNCHANGED <<settings, dfe, company, fetch, db, invoices, suppliers, items, run, batch, pending, outbox>>

\* The documents handed to process_nf_items: with or without a supplier, each
\* row with the item an earlier run left on it or none.
ItemDocuments ==
    {[NewRecord("K1", TRUE, FALSE, TRUE) EXCEPT !.supplier = sup, !.item = it] :
        sup \in {None, SupplierName},
        it \in {f \in [Lines -> {None} \cup {ItemCodes[l] : l \in Lines}] :
                   \A l \in Lines : f[l] \in {None, ItemCodes[l]}}}

ProcessNfItemsCall ==
    /\ calc.fn = None
    /\ \E doc \in ItemDocuments, cat \in [{ItemCodes[l] : l \in Lines} -> {0, 1}],
          create_ok \in [Lines -> BOOLEAN] :
          calc' = [fn |-> "process_nf_items", doc |-> doc, cat |-> cat,
                   create_ok |-> create_ok,
                   out |-> ProcessNfItems(doc, cat, create_ok)]
    /\ UNCHANGED <<settings, dfe, company, fetch, db, invoices, suppliers, items, run, batch, pending, outbox>>

\* What the lookups of a supplier return, in the order in which they are
\* tried: five by CNPJ, and by vendor name and tax id for an invoice from
\* abroad.
SupplierNames == {"SUP-1", "SUP-2"}
LookupResults == [1..5 -> {None} \cup SupplierNames]

\* The first supplier the lookups 1..last find, or None.
FirstFound(found, last) ==
    IF \A i \in 1..last : found[i] = None THEN None
    ELSE found[CHOOSE i \in 1..last :
                 found[i] # None /\ \A j \in 1..(i - 1) : found[j] = None]

\* SupplierManager.find_supplier_by_cnpj
FindSupplierByCnpj(found) == FirstFound(found, 5)

\* Supplier resolution whose creation is not guarded.
ProcessNfSupplierLookupsUnguarded(req) ==
    LET failed == [supplier |-> None, status |-> "Failed", message |-> TRUE,
                   raised |-> FALSE]
        existing == IF req.document_type = "Invoice"
                    THEN FirstFound(req.found, IF req.has_tax_id THEN 2 ELSE 1)
                    ELSE FindSupplierByCnpj(req.found)
    IN  IF ~req.has_id THEN failed
        ELSE IF existing # None
        THEN [supplier |-> existing, status |-> "Linked", message |-> TRUE,
              raised |-> FALSE]
        ELSE IF settings.auto_create_supplier
        THEN IF req.create_ok
             THEN [supplier |-> "SUP-NEW", status |-> "Created", message |-> TRUE,
                   raised |-> FALSE]
             ELSE [supplier |-> None, status |-> None, message |-> FALSE,
                   raised |-> TRUE]
        ELSE [supplier |-> None, status |-> "Not Found", message |-> TRUE,
              raised |-> FALSE]

\* SupplierManager.process_nf_supplier and _process_invoice_supplier: the
\* tuple returned (message is whether a message comes with it) and whether an
\* exception left the call.  has_id is whether the document carries the
\* issuer's CNPJ (the vendor name for an invoice from abroad).
ProcessNfSupplierLookups(req) ==
    LET failed == [supplier |-> None, status |-> "Failed", message |-> TRUE,
                   raised |-> FALSE]
        existing == IF req.document_type = "Invoice"
                    THEN FirstFound(req.found, IF req.has_tax_id THEN 2 ELSE 1)
                    ELSE FindSupplierByCnpj(req.found)
    IN  IF ~req.has_id THEN failed
        ELSE IF existing # None
        THEN [supplier |-> existing, status |-> "Linked", message |-> TRUE,
              raised |-> FALSE]
        ELSE IF settings.auto_create_supplier
        THEN IF req.create_ok
             THEN [supplier |-> "SUP-NEW", status |-> "Created", message |-> TRUE,
                   raised |-> FALSE]
             ELSE failed
        ELSE [supplier |-> None, status |-> "Not Found", message |-> TRUE,
              raised |-> FALSE]

SupplierRequests ==
    [document_type : {"NF", "Invoice"}, has_id : BOOLEAN, has_tax_id : BOOLEAN,
     found : LookupResults, create_ok : BOOLEAN]

ProcessNfSupplierCall ==
    /\ calc.fn = None
    /\ \E req \in SupplierRequests :
          calc' = [fn |-> "process_nf_supplier", req |-> req,
                   out |-> ProcessNfSupplierLookups(req)]
    /\ UNCHANGED <<settings, dfe, company, fetch, db, invoices, suppliers, items, run, batch, pending, outbox>>

NextResolvers ==
    \/ CreatePurchaseInvoiceCall
    \/ AutoLinkPoCall
    \/ CalculateMatchScoreCall
    \/ ProcessNfItemsCall
    \/ ProcessNfSupplierCall
    \/ ReturnCall

\* An empty store under every setting of auto_create_supplier and
\* auto_create_item.
InitResolvers ==
    /\ settings \in {s \in SettingsSpace :
                        /\ s.enable_po_matching
                        /\ s.auto_create_invoice /\ ~s.auto_submit
                        /\ AlertsConfigured(s)}
    /\ db = [n \in NFNames |-> NoRecord]
    /\ invoices = <<>>
    /\ suppliers = 0
    /\ items = [c \in {ItemCodes[l] : l \in Lines} |-> 0]
    /\ run = IdleRun
    /\ batch = IdleBatch
    /\ pending = NoPending
    /\ outbox = {}
    /\ calc = NoCall
    /\ dfe = NoFeed
    /\ company = NewCompany
    /\ fetch = IdleFetch

SpecResolvers == InitResolvers /\ [][NextResolvers]_vars

\* ------------------------------------------------------- access key codec
\* Strings are sequences of characters.  "sup" stands for a character such as
\* the superscript two, for which str.isdigit is true and int() raises; " "
\* and "x" are no digits.
DigitChars == <<"0", "1", "2", "3", "4", "5", "6", "7", "8", "9">>
Digits == {DigitChars[i] : i \in 1..10}
OtherChars == {" ", "x", "sup"}

\* int(c) for a character int() accepts
DigitValue(c) == (CHOOSE i \in 1..10 : DigitChars[i] = c) - 1

\* str.isdigit on one character
IsDigit(c) == c \in Digits \cup {"sup"}

\* clean_chave: "".join(filter(str.isdigit, str(chave)))
CleanChave(chave) == SelectSeq(chave, IsDigit)

Weights == <<2, 3, 4, 5, 6, 7, 8, 9>>

\* The loop that stops before the first character: i = 42 .. 1.
WeightedTotalWithoutFirst(c) ==
    LET sum[k \in 1..(KeyLength - 1)] ==
            IF k = 1 THEN 0
            ELSE sum[k - 1] + DigitValue(c[k]) * Weights[((KeyLength - 1 - k) % 8) + 1]
    IN  sum[KeyLength - 1]

\* The loop of validate_chave_acesso: the sum over i = 42 .. 0 of
\* int(chave[i]) * weights[(42 - i) % 8]; chave[i] is c[i + 1] here.
WeightedTotal(c) ==
    LET sum[k \in 0..(KeyLength - 1)] ==
            IF k = 0 THEN 0
            ELSE sum[k - 1] + DigitValue(c[k]) * Weights[((KeyLength - 1 - k) % 8) + 1]
    IN  sum[KeyLength - 1]

\* validate_chave_acesso: the boolean returned, or raised when int() meets a
\* character it does not accept.
ValidateChaveAcesso(chave) ==
    LET c == CleanChave(chave)
    IN  IF Len(c) # KeyLength THEN [raised |-> FALSE, value |-> FALSE]
        ELSE IF \E i \in 1..Len(c) : ~IsDigit(c[i])
        THEN [raised |-> FALSE, value |-> FALSE]
        ELSE IF \E i \in 1..Len(c) : c[i] \notin Digits
        THEN [raised |-> TRUE, value |-> FALSE]
        ELSE LET remainder == WeightedTotal(c) % 11
                 expected_dv == IF remainder < 2 THEN 0 ELSE 11 - remainder
             IN  [raised |-> FALSE, value |-> DigitValue(c[KeyLength]) = expected_dv]

\* The keys tried: 44 digits, all "0" but for the positions in FreePositions,
\* which take every digit.
FreePositions == {42, 43, 44}
DigitKeys ==
    {[i \in 1..KeyLength |-> IF i \in FreePositions THEN f[i] ELSE "0"] :
        f \in [FreePositions -> Digits]}

\* A string with character ch put in at position p, or put in place of the
\* character at position p.
InsertAt(k, p, ch) == SubSeq(k, 1, p - 1) \o <<ch>> \o SubSeq(k, p, Len(k))
ReplaceAt(k, p, ch) == [k EXCEPT ![p] = ch]

\* The strings that are no 44 digits, made from the keys that vary in their
\* last digit only: a character more, a digit replaced, a digit less.
OtherKeys ==
    LET few == {k \in DigitKeys : \A i \in FreePositions \ {KeyLength} : k[i] = "0"}
    IN  UNION {
          {InsertAt(k, p, ch) : p \in {1, KeyLength + 1}, ch \in OtherChars \cup {"0"}}
          \cup {ReplaceAt(k, p, ch) : p \in {1, KeyLength}, ch \in OtherChars}
          \cup {SubSeq(k, 1, KeyLength - 1), <<>>}
          : k \in few}

ValidateChaveAcessoCall ==
    /\ calc.fn = None
    /\ \E chave \in DigitKeys \cup OtherKeys :
          calc' = [fn |-> "validate_chave_acesso", chave |-> chave,
                   out |-> ValidateChaveAcesso(chave)]
    /\ UNCHANGED <<settings, dfe, company, fetch, db, invoices, suppliers, items, run, batch, pending, outbox>>

\* The keys among DigitKeys that validate_chave_acesso accepts.
ValidKeys == {k \in DigitKeys : ValidateChaveAcesso(k).value}

\* validate_chave_acesso on a valid key in which the digit at one of the
\* positions 0-42 (1..43 here) is replaced by another digit.
ValidateCorruptedCall ==
    /\ calc.fn = None
    /\ \E base \in ValidKeys, pos \in 1..(KeyLength - 1) :
          \E d \in Digits \ {base[pos]} :
             calc' = [fn |-> "validate_chave_acesso of corrupted key",
                      base |-> base, pos |-> pos,
                      chave |-> ReplaceAt(base, pos, d),
                      out |-> ValidateChaveAcesso(ReplaceAt(base, pos, d))]
    /\ UNCHANGED <<settings, dfe, company, fetch, db, invoices, suppliers, items, run, batch, pending, outbox>>

\* clean_cnpj: "" for an empty value, else the characters str.isdigit accepts
CleanCnpj(cnpj) ==
    IF cnpj = <<>> THEN <<>> ELSE SelectSeq(cnpj, IsDigit)

\* format_cnpj with the branch cut one digit short: cnpj[8:11].
FormatCnpjShortBranch(cnpj) ==
    LET c == CleanCnpj(cnpj)
    IN  IF Len(c) # CnpjLength THEN c
        ELSE SubSeq(c, 1, 2) \o <<".">> \o SubSeq(c, 3, 5) \o <<".">>
             \o SubSeq(c, 6, 8) \o <<"/">> \o SubSeq(c, 9, 11) \o <<"-">>
             \o SubSeq(c, 13, 14)

\* format_cnpj: cnpj[0:2].cnpj[2:5].cnpj[5:8]/cnpj[8:12]-cnpj[12:14]
FormatCnpj(cnpj) ==
    LET c == CleanCnpj(cnpj)
    IN  IF Len(c) # CnpjLength THEN c
        ELSE SubSeq(c, 1, 2) \o <<".">> \o SubSeq(c, 3, 5) \o <<".">>
             \o SubSeq(c, 6, 8) \o <<"/">> \o SubSeq(c, 9, 12) \o <<"-">>
             \o SubSeq(c, 13, 14)

\* The values tried: strings of 14 digits that vary in three places, each as
\* it is, in the mask, with a character more in front, inside or behind,
\* with a digit replaced by such a character, a digit short, and the empty
\* string.
CnpjDigitStrings ==
    {[i \in 1..CnpjLength |->
        IF i = 1 THEN f[1] ELSE IF i = 9 THEN f[2] ELSE IF i = CnpjLength THEN f[3]
        ELSE DigitChars[(i % 10) + 1]] :
       f \in [1..3 -> {"0", "1", "9"}]}

\* A CNPJ as it is written on documents.
Written(k) ==
    << k[1], k[2], ".", k[3], k[4], k[5], ".", k[6], k[7], k[8], "/",
       k[9], k[10], k[11], k[12], "-", k[13], k[14] >>

CnpjInputs ==
    UNION {
      {k, Written(k), SubSeq(k, 1, CnpjLength - 1), <<>>}
      \cup {InsertAt(Written(k), p, ch) :
               p \in {1, 4, 19}, ch \in {" ", ".", "sup", "0"}}
      \cup {ReplaceAt(k, p, ch) : p \in {1, CnpjLength}, ch \in {" ", "-", "sup"}}
      : k \in CnpjDigitStrings}

\* clean_cnpj on a value, on its own result, and format_cnpj on the result
\* followed by clean_cnpj again.
CleanCnpjCall ==
    /\ calc.fn = None
    /\ \E cnpj \in CnpjInputs :
          calc' = [fn |-> "clean_cnpj", cnpj |-> cnpj,
                   out |-> CleanCnpj(cnpj),
                   again |-> CleanCnpj(CleanCnpj(cnpj)),
                   formatted |-> FormatCnpj(CleanCnpj(cnpj)),
                   recovered |-> CleanCnpj(FormatCnpj(CleanCnpj(cnpj)))]
    /\ UNCHANGED <<settings, dfe, company, fetch, db, invoices, suppliers, items, run, batch, pending, outbox>>

NextCodec ==
    \/ ValidateChaveAcessoCall
    \/ ValidateCorruptedCall
    \/ CleanCnpjCall
    \/ ReturnCall

SpecCodec == InitIngest /\ [][NextCodec]_vars

\* Scheduled and manual fetches, one at a time, on an empty store.
InitFetch ==
    /\ settings = [auto_create_supplier |-> TRUE, auto_create_item |-> TRUE,
                   enable_po_matching |-> TRUE, auto_create_invoice |-> TRUE,
                   auto_submit |-> FALSE, send_cancellation_alerts |-> TRUE,
                   alert_email |-> TRUE]
    /\ db = [n \in NFNames |-> NoRecord]
    /\ invoices = <<>>
    /\ suppliers = 0
    /\ items = [c \in {ItemCodes[l] : l \in Lines} |-> 0]
    /\ run = IdleRun
    /\ batch = IdleBatch
    /\ pending = NoPending
    /\ outbox = {}
    /\ calc = NoCall
    /\ dfe \in [feed : Feeds, delivered : {{}}]
    /\ company = NewCompany
    /\ fetch = IdleFetch

NextFetch ==
    \/ \E manual \in BOOLEAN : FetchStart(manual)
    \/ FetchDocument
    \/ FetchFinish
    \/ FetchNowSave

SpecFetch == InitFetch /\ [][NextFetch]_vars

\* ------------------------------------------------------- manual link API
\* api.unlink_purchase_invoice: the invoice's reference is cleared by
\* set_value, then the record's; save_ok is whether nf_doc.save() goes through.
UnlinkPurchaseInvoice(n) ==
    /\ db[n].exists
    /\ \E save_ok \in BOOLEAN :
          IF db[n].purchase_invoice = 0
          THEN UNCHANGED <<db, invoices>>
          ELSE LET p == db[n].purchase_invoice
                   cleared == IF PIExists(p)
                              THEN [invoices EXCEPT ![p].nota_fiscal = 0,
                                                    ![p].chave = None]
                              ELSE invoices
               IN  IF save_ok
                   THEN Save(n, [db[n] EXCEPT !.purchase_invoice = 0], cleared)
                   ELSE db' = db /\ invoices' = cleared
    /\ UNCHANGED <<settings, dfe, company, fetch, suppliers, items, run, batch, pending, outbox, calc>>

\* api.link_purchase_invoice: the invoice named by the caller gets the
\* record's name and key, then the record gets the invoice's name.
LinkPurchaseInvoice(n, p) ==
    /\ db[n].exists
    /\ PIExists(p)
    /\ \E save_ok \in BOOLEAN :
          LET linked == [invoices EXCEPT ![p].nota_fiscal = n,
                                         ![p].chave = db[n].chave]
          IN  IF save_ok
              THEN Save(n, [db[n] EXCEPT !.purchase_invoice = p], linked)
              ELSE db' = db /\ invoices' = linked
    /\ UNCHANGED <<settings, dfe, company, fetch, suppliers, items, run, batch, pending, outbox, calc>>

\* Two documents in the store, no purchase invoice yet.
InitLinks ==
    /\ settings = [auto_create_supplier |-> TRUE, auto_create_item |-> TRUE,
                   enable_po_matching |-> TRUE, auto_create_invoice |-> TRUE,
                   auto_submit |-> FALSE, send_cancellation_alerts |-> TRUE,
                   alert_email |-> TRUE]
    /\ db = [n \in NFNames |->
                IF n = 1 THEN NewRecord("K1", TRUE, TRUE, FALSE)
                ELSE IF n = 2 THEN NewRecord("K2", TRUE, TRUE, FALSE)
                ELSE NoRecord]
    /\ invoices = <<>>
    /\ suppliers = 0
    /\ items = [c \in {ItemCodes[l] : l \in Lines} |-> 0]
    /\ run = IdleRun
    /\ batch = IdleBatch
    /\ pending = NoPending
    /\ outbox = {}
    /\ calc = NoCall
    /\ dfe = NoFeed
    /\ company = NewCompany
    /\ fetch = IdleFetch

\* Invoice creation or linking through InvoiceCreator, the manual link API and
\* the issuer's events on the two records.
NextLinks ==
    \/ \E n \in NFNames : ManualCreateSupplier(n)
    \/ \E n \in NFNames : ManualCreatePurchaseInvoice(n)
    \/ \E n \in NFNames, p \in 1..MaxPI : LinkPurchaseInvoice(n, p)
    \/ \E n \in NFNames : UnlinkPurchaseInvoice(n)
    \/ \E chave \in Keys, tipo \in EventTypes : ProcessEvento(chave, tipo)

SpecLinks == InitLinks /\ [][NextLinks]_vars

\* ------------------------------------------------------------------ claims
Cancelled(r) == r.exists /\ r.cancelada /\ r.processing_status = "Cancelled"
LiveInvoicesOf(n) ==
    {p \in PINames : invoices[p].origin = n /\ ~invoices[p].deleted
                     /\ invoices[p].docstatus < 2}
PipelineStep == ~Finished /\ run' # run

\* The position of a stage in the order of NFProcessor.process.
StageRank(pc) ==
    CASE pc = "checked" -> 0
      [] pc = "Supplier Processing" -> 1
      [] pc = "Item Processing" -> 2
      [] pc = "PO Matching" -> 3
      [] pc = "Invoice Creation" -> 4
      [] OTHER -> 5

\* C1: once a record is cancelled (flag set, status Cancelled), no operation
\* invoked on it afterwards changes its processing_status or clears the flag.
C1_CancelledIsAbsorbing ==
    [][\A n \in NFNames :
          (Cancelled(db[n]) /\ ~InFlight(n)) => Cancelled(db'[n])]_vars

C1_ParsedAfterCancellation ==
    \E n \in NFNames : db[n].exists /\ db[n].cancelada
                       /\ db[n].processing_status = "Parsed"

\* C2: process() invoked on a cancelled record raises before any stage runs
\* and leaves the record, its links and the invoices as they were.
C2_ProcessRejectsCancelled ==
    [][\A n \in NFNames :
          (Finished /\ db[n].exists /\ IsCancelled(db[n]) /\ run' # run /\ run'.nf = n)
          => (run'.pc = "raised" /\ db' = db /\ invoices' = invoices
              /\ suppliers' = suppliers /\ items' = items)]_vars

C2_RejectedWithInvoiceLink ==
    /\ run.pc = "raised" /\ run.nf # 0
    /\ Cancelled(db[run.nf])
    /\ db[run.nf].purchase_invoice # 0
    /\ db[run.nf].supplier # None

C5_StageErrorIsReturned ==
    [][\A n \in NFNames :
          InFlight(n) =>
            /\ run'.pc # "raised"
            /\ (run'.pc = "done" /\ run'.result = "Error")
               => (db'[n].processing_status = "Error" /\ db'[n].processing_error)]_vars

C5_RaisedOutOfProcess ==
    /\ run.pc = "raised" /\ run.nf # 0
    /\ ~IsCancelled(db[run.nf])
    /\ db[run.nf].processing_status \in StageNames

\* C6: while a stage's logic runs, the persisted processing_status is the
\* name of that stage.
C6_StagePersistedBeforeLogic ==
    \A n \in NFNames :
        (run.nf = n /\ run.pc \in StageNames) => db[n].processing_status = run.pc

C6_InsideInvoiceCreation ==
    /\ run.pc = "Invoice Creation" /\ run.nf # 0
    /\ db[run.nf].processing_status = "Invoice Creation"
    /\ db[run.nf].purchase_order # None

\* C7: an execution is in the Invoice Creation stage only with
\* auto_create_invoice set, a supplier linked and item status "All Created",
\* and it creates or links a purchase invoice only in that stage.
C7_InvoiceStageCondition ==
    /\ [](run.pc = "Invoice Creation" =>
            /\ settings.auto_create_invoice
            /\ run.doc.supplier # None
            /\ run.doc.item_creation_status = "All Created")
    /\ [][\A n \in NFNames :
             (PipelineStep /\ run.nf = n
              /\ \/ Len(invoices') # Len(invoices)
                 \/ db'[n].purchase_invoice # db[n].purchase_invoice
                 \/ \E p \in PINames : invoices'[p].nota_fiscal # invoices[p].nota_fiscal)
             => run.pc = "Invoice Creation"]_vars

C7_CompletedWithoutInvoice ==
    /\ run.pc = "done" /\ run.result = "Completed" /\ run.nf # 0
    /\ settings.auto_create_invoice
    /\ db[run.nf].supplier # None
    /\ db[run.nf].item_creation_status \in {"Partial", "Failed"}
    /\ db[run.nf].processing_status = "Completed"
    /\ db[run.nf].purchase_invoice = 0
    /\ invoices = <<>>

\* C8: re-running the pipeline creates no second supplier, no second item and
\* no second purchase invoice for the document.
C8_RerunCreatesNothingTwice ==
    /\ suppliers <= 1
    /\ \A l \in Lines : items[ItemCodes[l]] <= 1
    /\ \A n \in NFNames : Cardinality(LiveInvoicesOf(n)) <= 1

C8_TwoInvoicesForOneDocument ==
    \E n \in NFNames :
        /\ Cardinality(LiveInvoicesOf(n)) = 2
        /\ db[n].processing_status = "Completed"

\* C9: batch_process records exactly one outcome per document it has handled,
\* in request order, and processed + skipped + errors is their number; it
\* returns only when every requested document has been handled.
C9_BatchIsolatesFailures ==
    batch.active =>
        /\ Len(batch.details) = batch.next - 1
        /\ batch.processed + batch.skipped + batch.errors = batch.next - 1
        /\ batch.next <= Len(batch.documents) + 1
        /\ \A i \in 1..Len(batch.details) : batch.details[i][1] = batch.documents[i]

C9_ErrorThenProcessed ==
    /\ batch.active /\ batch.current = 0
    /\ Len(batch.documents) = 2 /\ batch.next = 3
    /\ batch.details[1][2] = "error"
    /\ batch.details[2][2] = "completed"
    /\ batch.documents[1] = batch.documents[2]

\* C10: a cancellation applied while an execution is in flight on the record
\* survives the execution: no later write of the execution changes the
\* cancelled flag or the status Cancelled.
C10_CancellationSurvivesExecution ==
    [][\A n \in NFNames :
          (Cancelled(db[n]) /\ InFlight(n)) => Cancelled(db'[n])]_vars

C10_ExecutionOverwroteCancellation ==
    /\ run.pc = "done" /\ run.result = "Completed" /\ run.nf # 0
    /\ db[run.nf].processing_status = "Completed"
    /\ ~db[run.nf].cancelada
    /\ db[run.nf].purchase_invoice # 0
    /\ \E p \in PINames : invoices[p].deleted

\* C11: when the two channels ingest one document concurrently, two records
\* with its access key exist at most for a while: the store eventually holds
\* exactly one record with that key.
C11_NoPermanentDuplicates ==
    \A k \in Keys : (Cardinality(WithKey(k)) > 1) ~> (Cardinality(WithKey(k)) = 1)

C11_TwoRecordsOneKey ==
    /\ \E k \in Keys : Cardinality(WithKey(k)) = 2
    /\ \A c \in Channels : ~pending[c].busy
    /\ \E n \in NFNames : db[n].origin_sefaz /\ ~db[n].origin_email
    /\ \E n \in NFNames : db[n].origin_email /\ ~db[n].origin_sefaz

\* C12: a record is cancelled only by an issuer-side cancellation event: as
\* long as the events delivered are of other kinds, neither the pipeline nor
\* an event sets the cancelled flag or the status Cancelled.
C12_OnlyCancellationEventsCancel ==
    \A n \in NFNames : ~db[n].cancelada /\ db[n].processing_status # "Cancelled"

C12_CancelledByCorrectionEvent ==
    \E n \in NFNames :
        /\ db[n].cancelada /\ db[n].processing_status = "Cancelled"
        /\ db[n].supplier # None

\* C13: within one execution the stages are entered in the order Supplier
\* Processing, Item Processing, PO Matching, Invoice Creation, Completed, of
\* which only PO Matching and Invoice Creation may be skipped: every stage
\* entered is persisted as the status and lies after the one before, and
\* Completed is written only once Item Processing has finished.
C13_StagesInOrder ==
    [][PipelineStep =>
         /\ ~Finished' =>
               /\ StageRank(run'.pc) > StageRank(run.pc)
               /\ db'[run.nf].processing_status = run'.pc
               /\ run.pc = "checked" => run'.pc = "Supplier Processing"
               /\ run.pc = "Supplier Processing" => run'.pc = "Item Processing"
         /\ run'.result = "Completed" =>
               /\ run.pc \in {"Item Processing", "PO Matching", "Invoice Creation"}
               /\ db'[run.nf].processing_status = "Completed"]_vars

C13_CompletedThroughAllStages ==
    /\ run.result = "Completed"
    /\ db[run.nf].processing_status = "Completed"
    /\ db[run.nf].purchase_order # None
    /\ db[run.nf].purchase_invoice # 0

\* C14: every execution started on a record that is not cancelled ends with the
\* record's status Completed or Error; an execution in which no stage raises
\* ends Completed even when a resolver found and created nothing.
C14_ExecutionEndsCompletedOrError ==
    [][(PipelineStep /\ Finished') =>
         /\ db'[run.nf].processing_status \in {"Completed", "Error"}
         /\ run'.result = db'[run.nf].processing_status]_vars

C14_EndedInsideItemProcessing ==
    /\ run.pc = "raised" /\ run.nf # 0
    /\ db[run.nf].processing_status = "Item Processing"
    /\ db[run.nf].supplier = None

\* The issue a failed compensation on invoice p leaves, judged by the invoice
\* before and after the event: None when the compensation succeeded.
FailureText(p) ==
    IF ~PIExists(p) THEN "Check document status"
    ELSE IF invoices[p].docstatus = 1 /\ invoices'[p].docstatus = 1
    THEN "Manual cancellation required"
    ELSE IF invoices[p].docstatus = 0 /\ ~invoices'[p].deleted
    THEN "Manual deletion required"
    ELSE None

\* C15 as stated: whenever the compensation on the linked invoice fails while
\* a cancellation event is handled, an alert that names the invoice with its
\* action_required text is sent.
C15_FailureAlwaysAlerted ==
    [][\A chave \in Keys, tipo \in CancellationEventTypes, n \in NFNames :
          (/\ WithKey(chave) = {n}
           /\ db[n].purchase_invoice # 0
           /\ FailureText(db[n].purchase_invoice) # None
           /\ outbox' # {[document_name |-> db[n].purchase_invoice,
                          action_required |-> FailureText(db[n].purchase_invoice)]})
          => ~ProcessEvento(chave, tipo)]_vars

\* C15: whenever the compensation on the linked invoice fails while a
\* cancellation event is handled, the failure is collected and, if the
\* cancellation alerts are switched on and a recipient is set, an alert that
\* names the invoice with its action_required text is sent; otherwise no
\* alert is sent.
C15_FailureAlertedWhenConfigured ==
    [][\A chave \in Keys, tipo \in CancellationEventTypes, n \in NFNames :
          (/\ WithKey(chave) = {n}
           /\ db[n].purchase_invoice # 0
           /\ FailureText(db[n].purchase_invoice) # None
           /\ outbox' # (IF settings.send_cancellation_alerts /\ settings.alert_email
                         THEN {[document_name |-> db[n].purchase_invoice,
                                action_required |->
                                    FailureText(db[n].purchase_invoice)]}
                         ELSE {}))
          => ~ProcessEvento(chave, tipo)]_vars

C15_ManualCancellationAlert ==
    \E n \in NFNames :
        /\ IsCancelled(db[n])
        /\ db[n].purchase_invoice # 0
        /\ PIExists(db[n].purchase_invoice)
        /\ invoices[db[n].purchase_invoice].docstatus = 1
        /\ outbox = {[document_name |-> db[n].purchase_invoice,
                      action_required |-> "Manual cancellation required"]}

\* C16: the compensation is chosen by the state of the linked invoice and
\* exactly one action is attempted: on a cancelled invoice nothing, with
\* success; on a submitted one cancel, whose failure is returned as "Manual
\* cancellation required"; on a draft delete, whose failure is returned too;
\* in no case does the event fail to cancel the record.
C16_CompensationByInvoiceState ==
    [][\A chave \in Keys, tipo \in CancellationEventTypes, n \in NFNames :
          (/\ WithKey(chave) = {n}
           /\ db[n].purchase_invoice # 0
           /\ PIExists(db[n].purchase_invoice)
           /\ LET p == db[n].purchase_invoice
                  before == invoices[p]
                  after == invoices'[p]
                  res == [ok \in BOOLEAN |-> HandleLinkedPurchaseInvoice(invoices, p, ok)]
              IN ~(/\ IsCancelled(db'[n])
                   /\ before.docstatus = 2 =>
                        /\ after.docstatus = 2 /\ ~after.deleted
                        /\ \A ok \in BOOLEAN :
                              res[ok].attempt = "none" /\ res[ok].success
                   /\ before.docstatus = 1 =>
                        /\ after.docstatus \in {1, 2} /\ ~after.deleted
                        /\ \A ok \in BOOLEAN :
                              /\ res[ok].attempt = "cancel"
                              /\ res[ok].success = ok
                              /\ ~ok => /\ res[ok].inv = invoices
                                        /\ res[ok].action_required =
                                              "Manual cancellation required"
                   /\ before.docstatus = 0 =>
                        /\ after.docstatus = 0
                        /\ \A ok \in BOOLEAN :
                              /\ res[ok].attempt = "delete"
                              /\ res[ok].success = ok
                              /\ res[ok].inv[p].deleted = ok
                              /\ ~ok => res[ok].action_required # None))
          => ~ProcessEvento(chave, tipo)]_vars

C16_DraftDeletedByCancellation ==
    \E n \in NFNames :
        /\ IsCancelled(db[n])
        /\ db[n].purchase_invoice \in 1..Len(invoices)
        /\ invoices[db[n].purchase_invoice].deleted
        /\ invoices[db[n].purchase_invoice].docstatus = 0
        /\ outbox = {}

C19_ScoreIsSumOfParts ==
    calc.fn = "_calculate_match_score" =>
        LET req == calc.req
            pct == IF req.tolerance_percent = 0 THEN 5 ELSE req.tolerance_percent
            gap == IF req.nf_value > req.po_value THEN req.nf_value - req.po_value
                   ELSE req.po_value - req.nf_value
            value == IF req.po_value = 0 THEN 0
                     ELSE IF 100 * gap <= pct * req.po_value THEN 30
                     ELSE IF 100 * gap <= 2 * pct * req.po_value THEN 15
                     ELSE 0
            n == Len(req.nf_items)
            m == Len(req.po_items)
            count == IF n = m THEN 20
                     ELSE IF n - m \in -2..2 THEN 10
                     ELSE 0
            common == Cardinality({i \in 1..n :
                          /\ req.nf_items[i] # None
                          /\ \E j \in 1..m : req.po_items[j] = req.nf_items[i]})
            overlap == IF n = 0 THEN 0
                       ELSE CHOOSE q \in 0..40 : q * n <= 40 * common /\ 40 * common < (q + 1) * n
            date == IF req.days_diff <= 7 THEN 10
                    ELSE IF req.days_diff <= 14 THEN 5
                    ELSE 0
        IN  /\ calc.out = value + count + overlap + date
            /\ calc.out \in 0..100
            /\ (/\ req.nf_value = 1000 /\ req.po_value = 1020
                /\ req.tolerance_percent = 5
                /\ n = 2 /\ m = 2 /\ common = 0 /\ req.days_diff = 0)
               => /\ calc.out = 60
                  /\ AutoLinkPoCandidates(TRUE, <<calc.out>>).status = "Linked"

C19_ExampleScoresSixty ==
    /\ calc.fn = "_calculate_match_score"
    /\ calc.req.nf_value = 1000 /\ calc.req.po_value = 1020
    /\ calc.req.tolerance_percent = 5
    /\ calc.req.nf_items = <<"ITEM-1", None>>
    /\ calc.req.po_items = <<"ITEM-2", "ITEM-2">>
    /\ calc.req.days_diff = 0
    /\ calc.out = 60

\* C20: item resolution settles every row by that row alone: it is Linked
\* when its item is found, Created when the item could be created, and
\* Failed otherwise, whatever happens to the other rows.  The aggregate is
\* All Created when no row failed, Failed when every row failed and Partial
\* otherwise, and every row that is Linked or Created carries an item.
C20_RowsResolvedIndependently ==
    calc.fn = "process_nf_items" =>
        LET out == calc.out
            expected == [l \in Lines |->
                IF calc.cat[ItemCodes[l]] > 0 /\ calc.doc.supplier # None
                THEN "Linked"
                ELSE IF settings.auto_create_item /\ calc.create_ok[l]
                THEN "Created"
                ELSE "Failed"]
            failed == {l \in Lines : out.item_status[l] = "Failed"}
        IN  /\ \A l \in Lines :
                  /\ out.item_status[l] = expected[l]
                  /\ out.item_status[l] \in {"Linked", "Created"}
                       => out.item[l] = ItemCodes[l]
            /\ failed = {} => out.status = "All Created"
            /\ failed = Lines => out.status = "Failed"
            /\ (failed # {} /\ failed # Lines) => out.status = "Partial"

C20_OneRowFailedOneCreated ==
    /\ calc.fn = "process_nf_items"
    /\ calc.out.item_status = [l \in Lines |-> IF l = 1 THEN "Failed" ELSE "Created"]
    /\ calc.out.item[2] = ItemCodes[2]
    /\ calc.out.status = "Partial"

\* The lookups a supplier resolution consults, by the kind of document.
C21Consulted(req) ==
    IF req.document_type = "NF" THEN 1..5
    ELSE IF req.has_tax_id THEN 1..2 ELSE 1..1

\* C21 as stated: supplier resolution returns Linked with the first supplier
\* its lookups find; when they find none it returns Created with the new
\* supplier if auto-create is on, Failed with a message and no supplier if
\* the creation raises, and Not Found if auto-create is off; no exception
\* leaves it, and it returns a supplier exactly with Linked and Created.
C21_SupplierResolutionOutcome ==
    calc.fn = "process_nf_supplier" =>
        LET req == calc.req
            out == calc.out
            hits == {i \in C21Consulted(req) : req.has_id /\ req.found[i] # None}
        IN  /\ ~out.raised
            /\ hits # {} =>
                  \E i \in hits :
                     /\ \A j \in hits : i <= j
                     /\ out.status = "Linked" /\ out.supplier = req.found[i]
            /\ (hits = {} /\ settings.auto_create_supplier /\ req.create_ok) =>
                  (out.status = "Created" /\ out.supplier # None)
            /\ (hits = {} /\ settings.auto_create_supplier /\ ~req.create_ok) =>
                  (out.status = "Failed" /\ out.message /\ out.supplier = None)
            /\ (hits = {} /\ ~settings.auto_create_supplier) =>
                  out.status = "Not Found"
            /\ out.supplier # None <=> out.status \in {"Linked", "Created"}

\* C21: the same for a document that carries the issuer's CNPJ (the vendor
\* name for an invoice from abroad); for a document without it the
\* resolution returns Failed with a message and no supplier, whatever the
\* setting, and creates nothing.
C21_SupplierResolutionWithIdentifier ==
    calc.fn = "process_nf_supplier" =>
        LET req == calc.req
            out == calc.out
            hits == {i \in C21Consulted(req) : req.found[i] # None}
        IN  /\ ~out.raised
            /\ ~req.has_id =>
                  (out.status = "Failed" /\ out.message /\ out.supplier = None)
            /\ (req.has_id /\ hits # {}) =>
                  \E i \in hits :
                     /\ \A j \in hits : i <= j
                     /\ out.status = "Linked" /\ out.supplier = req.found[i]
            /\ (req.has_id /\ hits = {} /\ settings.auto_create_supplier
                  /\ req.create_ok) =>
                  (out.status = "Created" /\ out.supplier # None)
            /\ (req.has_id /\ hits = {} /\ settings.auto_create_supplier
                  /\ ~req.create_ok) =>
                  (out.status = "Failed" /\ out.message /\ out.supplier = None)
            /\ (req.has_id /\ hits = {} /\ ~settings.auto_create_supplier) =>
                  out.status = "Not Found"
            /\ out.supplier # None <=> out.status \in {"Linked", "Created"}

C21_CreationFailureReported ==
    /\ calc.fn = "process_nf_supplier"
    /\ calc.req.has_id /\ ~calc.req.create_ok
    /\ \A i \in 1..5 : calc.req.found[i] = None
    /\ settings.auto_create_supplier
    /\ calc.out.status = "Failed" /\ calc.out.supplier = None /\ ~calc.out.raised

\* The modulo-11 check digit of the 43 digits before the last, as the claim
\* states it: weights 2..9 cycling from the rightmost of them leftward, the
\* sum taken modulo 11.
C22Remainder(k) ==
    LET w(i) == 2 + ((43 - i) % 8)
        sum[i \in 0..43] ==
            IF i = 0 THEN 0
            ELSE sum[i - 1] + w(i) * ((CHOOSE d \in 1..10 : DigitChars[d] = k[i]) - 1)
    IN  sum[43] % 11

C22CheckDigit(k) ==
    IF C22Remainder(k) < 2 THEN 0 ELSE 11 - C22Remainder(k)

\* C22: validate_chave_acesso never raises; on a string of 44 digits it is
\* true exactly when the last digit is the modulo-11 check digit of the
\* first 43; on a string that holds a character that is no digit, or whose
\* length is not 44, it is false.
C22_ValidatesExactlyCheckDigit ==
    calc.fn = "validate_chave_acesso" =>
        LET k == calc.chave
            numeric == \A i \in 1..Len(k) : k[i] \in Digits
        IN  /\ ~calc.out.raised
            /\ (Len(k) = 44 /\ numeric) =>
                  (calc.out.value <=>
                     k[44] = DigitChars[C22CheckDigit(k) + 1])
            /\ (Len(k) # 44 \/ ~numeric) => ~calc.out.value

C22_SpacedKeyAccepted ==
    /\ calc.fn = "validate_chave_acesso"
    /\ Len(calc.chave) = 45
    /\ calc.chave[1] = " "
    /\ calc.out.value

\* C23 as stated: in a valid key, replacing the digit at any one of the
\* positions 0-42 by a different digit gives a key that is rejected.
C23_SingleDigitCorruptionRejected ==
    calc.fn = "validate_chave_acesso of corrupted key" => ~calc.out.value

\* C23: in a valid key, replacing the digit at any one of the positions 0-42
\* by a different digit changes the modulo-11 remainder, and the key is
\* rejected unless the remainder has moved between 0 and 1, which have the
\* same check digit 0.
C23_CorruptionChangesRemainder ==
    calc.fn = "validate_chave_acesso of corrupted key" =>
        LET before == C22Remainder(calc.base)
            after == C22Remainder(calc.chave)
        IN  /\ ~calc.out.raised
            /\ before # after
            /\ calc.out.value <=> (before < 2 /\ after < 2)

C23_CorruptionRejected ==
    /\ calc.fn = "validate_chave_acesso of corrupted key"
    /\ calc.pos = 1
    /\ calc.base[43] = "1"
    /\ ~calc.out.value

\* C24: clean_cnpj applied to its own result changes nothing; and for a
\* value that cleans to 14 digits, format_cnpj of the cleaned value is those
\* digits in the mask XX.XXX.XXX/XXXX-XX, from which clean_cnpj gives the
\* same 14 digits back.
C24_CleanIdempotentFormatRoundTrip ==
    calc.fn = "clean_cnpj" =>
        /\ calc.again = calc.out
        /\ Len(calc.out) = 14 =>
              LET d == calc.out
              IN  /\ calc.formatted =
                       << d[1], d[2], ".", d[3], d[4], d[5], ".", d[6], d[7], d[8],
                          "/", d[9], d[10], d[11], d[12], "-", d[13], d[14] >>
                  /\ calc.recovered = d

C24_MaskedInputRoundTrip ==
    /\ calc.fn = "clean_cnpj"
    /\ Len(calc.cnpj) = 19
    /\ calc.cnpj[1] = " "
    /\ Len(calc.out) = 14
    /\ Len(calc.formatted) = 18
    /\ calc.recovered = calc.out
\* C25: whenever a fiscal record references a purchase invoice, that invoice's
\* nota_fiscal field names the same record, so no purchase invoice is
\* referenced by two fiscal records at once.
C25_LinksAreMutual ==
    \A n \in NFNames :
        (db[n].exists /\ db[n].purchase_invoice # 0) =>
            /\ db[n].purchase_invoice \in PINames
            /\ invoices[db[n].purchase_invoice].nota_fiscal = n

C25_InvoiceReferencedTwice ==
    \E n, m \in NFNames, p \in PINames :
        /\ n # m /\ db[n].exists /\ db[m].exists
        /\ db[n].purchase_invoice = p /\ db[m].purchase_invoice = p
        /\ ~invoices[p].deleted /\ invoices[p].docstatus < 2
        /\ ~IsCancelled(db[n]) /\ ~IsCancelled(db[m])

\* The documents of the feed a fetch loop has handled: handed out, and not
\* waiting in the LoteDFe of the fetch in progress.
Received(i) ==
    /\ i \in dfe.delivered
    /\ ~(fetch.pc = "loop"
         /\ \E j \in fetch.next..Len(fetch.documents) : fetch.documents[j].NSU = i)

CancellationReceived(chave) ==
    \E i \in 1..Len(dfe.feed) :
        /\ Received(i)
        /\ dfe.feed[i].TipoDocumento = "EVENTO"
        /\ dfe.feed[i].ChaveAcesso = chave
        /\ IsCancellationEvent(dfe.feed[i].TipoEvento)

\* C26: no record stays active once a cancellation event for its access key
\* has been received, whether the event came before or after the document.
C26_CancellationNotLostByOrder ==
    \A n \in NFNames :
        (db[n].exists /\ CancellationReceived(db[n].chave)) => IsCancelled(db[n])

C26_ActiveAfterEarlierCancellation ==
    \E n \in NFNames :
        /\ db[n].exists /\ ~IsCancelled(db[n])
        /\ fetch.pc = "done"
        /\ \E i \in 1..Len(dfe.feed) :
              /\ Received(i) /\ i < db[n].nsu
              /\ dfe.feed[i].TipoDocumento = "EVENTO"
              /\ dfe.feed[i].ChaveAcesso = db[n].chave

\* C27: whenever the stored cursor is at or beyond the NSU of a document a
\* fetch has returned, a fiscal record for that document exists.
C27_NoDocumentSkipped ==
    \A i \in dfe.delivered :
        (dfe.feed[i].TipoDocumento = "NFSE" /\ company.last_nsu_nfse >= i) =>
            \E n \in NFNames :
                /\ db[n].exists
                /\ db[n].nsu = i \/ db[n].chave = dfe.feed[i].ChaveAcesso

C27_CursorPastFailedDocument ==
    /\ fetch.pc = "done" /\ ~fetch.manual
    /\ \E i \in dfe.delivered :
          /\ dfe.feed[i].TipoDocumento = "NFSE"
          /\ company.last_nsu_nfse >= i
          /\ WithKey(dfe.feed[i].ChaveAcesso) = {}
          /\ WithNsu(i) = {}

\* C28: the stored cursor never decreases, and a fetch that returns leaves
\* it at the maximum of its previous value and every NSU of the batch.
C28_CursorMonotone ==
    [][/\ company'.last_nsu_nfse >= company.last_nsu_nfse
       /\ (fetch.pc # "done" /\ fetch'.pc = "done" /\ fetch'.status = "success") =>
              \A i \in 1..Len(fetch.documents) :
                  company'.last_nsu_nfse >= fetch.documents[i].NSU]_vars

C28_CursorBehindAfterManualFetch ==
    /\ fetch.pc = "done" /\ fetch.manual /\ fetch.status = "success"
    /\ fetch.documents # <<>>
    /\ company.last_nsu_nfse < fetch.documents[Len(fetch.documents)].NSU

\* C29: a pipeline run never removes a link the record already holds: a
\* supplier or purchase order stored on the record before a step of process()
\* is still stored on it after the step.
C29_PipelineKeepsLinks ==
    [][run' # run =>
          \A n \in NFNames :
              /\ db[n].supplier # None => db'[n].supplier = db[n].supplier
              /\ db[n].purchase_order # None =>
                     db'[n].purchase_order = db[n].purchase_order]_vars

\* C30: every purchase-invoice reference held by a fiscal record names an
\* existing purchase invoice, also after a cancellation event has deleted the
\* record's draft invoice.
C30_ReferencesNameExistingInvoices ==
    \A n \in NFNames :
        (db[n].exists /\ db[n].purchase_invoice # 0) => PIExists(db[n].purchase_invoice)

C30_ReferenceToDeletedDraft ==
    \E n \in NFNames :
        /\ Cancelled(db[n])
        /\ db[n].purchase_invoice \in PINames
        /\ invoices[db[n].purchase_invoice].deleted
        /\ invoices[db[n].purchase_invoice].nota_fiscal = n

====
